---------------------------- MODULE Spec2Model ----------------------------
(***************************************************************************)
(* Filesystem-backed SQL snippet repository of supabase-studio-go          *)
(* (internal/api/snippets.go and its HTTP handlers).                       *)
(*                                                                         *)
(* Strings are sequences of code points, so that filepath.Base,            *)
(* filepath.Join, strings.HasSuffix, strings.TrimSuffix and the identity   *)
(* hash are computed the way the code computes them.  An identifier is the *)
(* 36 character text of a UUID.  A *string is a sequence of zero (nil) or  *)
(* one string.                                                             *)
(***************************************************************************)
EXTENDS Integers, Sequences, FiniteSets, TLC

(***************************************************************************)
(* Code points used by the code.                                           *)
(***************************************************************************)
chNul == 0
chDot == 46
chSlash == 47
chUnderscore == 95
chDash == 45

\* ".sql"
SqlSuffix == <<46, 115, 113, 108>>
\* ".DS_Store"
DSStore == <<46, 68, 83, 95, 83, 116, 111, 114, 101>>

\* a nil *string, and a pointer to the string s
NilPtr == <<>>
Ptr(s) == <<s>>

(***************************************************************************)
(* Only({e(x) : x \in {v}}) is e(v) with v evaluated once and named x:      *)
(* what a local variable of the code is.                                   *)
(***************************************************************************)
Only(S) == CHOOSE r \in S : TRUE

(***************************************************************************)
(* strings                                                                 *)
(***************************************************************************)
HasSuffix(s, suffix) ==
    /\ Len(s) >= Len(suffix)
    /\ SubSeq(s, Len(s) - Len(suffix) + 1, Len(s)) = suffix

TrimSuffix(s, suffix) ==
    IF HasSuffix(s, suffix) THEN SubSeq(s, 1, Len(s) - Len(suffix)) ELSE s

ContainsRune(s, c) == \E i \in 1..Len(s) : s[i] = c

\* byte-wise string order, the order in which os.ReadDir returns names
StrLess(s, t) ==
    \E k \in 1..(Len(t)) :
        /\ k <= Len(s) + 1
        /\ \A i \in 1..(k - 1) : s[i] = t[i]
        /\ (k = Len(s) + 1 \/ s[k] < t[k])

RECURSIVE JoinWith(_, _)
JoinWith(parts, sep) ==
    IF Len(parts) = 0 THEN <<>>
    ELSE IF Len(parts) = 1 THEN parts[1]
    ELSE parts[1] \o <<sep>> \o JoinWith(Tail(parts), sep)

\* the set S as a sequence in ascending StrLess order
RECURSIVE SortNames(_)
SortNames(S) ==
    IF S = {} THEN <<>>
    ELSE Only({<<m>> \o SortNames(S \ {m}) :
                  m \in {x \in S : \A y \in S \ {x} : StrLess(x, y)}})

\* the set of integers S as an ascending sequence
RECURSIVE SortedInts(_)
SortedInts(S) ==
    IF S = {} THEN <<>>
    ELSE Only({<<m>> \o SortedInts(S \ {m}) :
                  m \in {x \in S : \A y \in S : x <= y}})

(***************************************************************************)
(* simpleHash and deterministicUUID.  A 32 bit word is a pair <<hi, lo>>   *)
(* of 16 bit halves, so that no intermediate value leaves the range of the *)
(* model checker's integers while the arithmetic wraps as Go's int32 and   *)
(* uint32 do.                                                              *)
(***************************************************************************)
W16 == 65536

\* hash = (hash << 5) - hash + int32(r), i.e. hash*31 + r modulo 2^32
HashStep(h, r) ==
    LET lo == h[2] * 31 + (r % W16)
        hi == h[1] * 31 + (r \div W16) + (lo \div W16)
    IN <<hi % W16, lo % W16>>

\* a faulty variant of AbsInt32: the sign is left as it is
AbsInt32Skipped(h) == h

\* if hash < 0 { hash = -hash }: two's complement negation, which leaves
\* -2^31 as it is
AbsInt32(h) ==
    IF h[1] >= 32768
    THEN LET lo == (W16 - h[2]) % W16
             borrow == IF h[2] = 0 THEN 0 ELSE 1
             hi == (2 * W16 - h[1] - borrow) % W16
         IN <<hi, lo>>
    ELSE h

\* for _, r := range input { hash = ... } over input[i..j], from hash h.
\* The range is halved rather than walked so that the evaluation stays
\* shallow; the steps and their order are those of the loop.
RECURSIVE HashRange(_, _, _, _)
HashRange(h, input, i, j) ==
    IF i > j THEN h
    ELSE IF i = j THEN HashStep(h, input[i])
    ELSE Only({HashRange(left, input, ((i + j) \div 2) + 1, j) :
                  left \in {HashRange(h, input, i, (i + j) \div 2)}})

simpleHash(input) ==
    Only({AbsInt32(hash) : hash \in {HashRange(<<0, 0>>, input, 1, Len(input))}})

\* 1103515245 = 16838 * 2^16 + 20077
LcgMulHi == 16838
LcgMulLo == 20077
LcgInc == 12345

\* seed = (seed*1103515245 + 12345) & 0x7fffffff on uint32
LcgStep(seed) ==
    LET lo == seed[2] * LcgMulLo + LcgInc
        hi == ((seed[1] * LcgMulLo) % W16) + ((seed[2] * LcgMulHi) % W16)
              + (lo \div W16)
    IN <<hi % 32768, lo % W16>>

\* for i := 0; i < 16; i++ { seed = ...; bytes[i] = byte(seed >> 16) }
RECURSIVE LcgBytes(_, _)
LcgBytes(seed, n) ==
    IF n = 0 THEN <<>>
    ELSE Only({<<next[1] % 256>> \o LcgBytes(next, n - 1) :
                  next \in {LcgStep(seed)}})

\* bytes[6] = (bytes[6] & 0x0f) | 0x40 ; bytes[8] = (bytes[8] & 0x3f) | 0x80
PatchVersion(bytes) ==
    [i \in 1..16 |->
        IF i = 7 THEN (bytes[i] % 16) + 64
        ELSE IF i = 9 THEN (bytes[i] % 64) + 128
        ELSE bytes[i]]

uuidBytes(input) ==
    Only({PatchVersion(bytes) :
             bytes \in {LcgBytes(seed, 16) : seed \in {simpleHash(input)}}})

HexDigit(d) == IF d < 10 THEN 48 + d ELSE 87 + d

\* the two hexadecimal digits of each of bytes[i..j]
HexOf(bytes, i, j) ==
    [k \in 1..(2 * (j - i + 1)) |->
        IF k % 2 = 1 THEN HexDigit(bytes[i + ((k - 1) \div 2)] \div 16)
        ELSE HexDigit(bytes[i + ((k - 1) \div 2)] % 16)]

\* uuid.UUID.String(): xxxxxxxx-xxxx-xxxx-xxxx-xxxxxxxxxxxx
uuidString(bytes) ==
    HexOf(bytes, 1, 4) \o <<chDash>> \o HexOf(bytes, 5, 6) \o <<chDash>>
    \o HexOf(bytes, 7, 8) \o <<chDash>> \o HexOf(bytes, 9, 10) \o <<chDash>>
    \o HexOf(bytes, 11, 16)

\* the path of deterministicUUID for an input that is not empty
uuidOfInput(input) == Only({uuidString(bytes) : bytes \in {uuidBytes(input)}})

(***************************************************************************)
(* Names.  What callers send, and what an external change may put into the *)
(* directory tree.                                                         *)
(***************************************************************************)
nA == <<97>>                    \* "a"
nAa == <<65, 97>>               \* "Aa"
nBB == <<66, 66>>               \* "BB": simpleHash("BB") = simpleHash("Aa")
nDotDot == <<46, 46>>           \* ".."
nTraversal == <<46, 46, 47, 97>>  \* "../a"
nNul == <<97, 0, 98>>           \* "a\x00b"
nEmpty == <<>>                  \* ""
nSlash == <<47>>                \* "/"
nUnknown == <<63>>              \* "?": names nothing in the tree

\* the bodies of snippets: "1" and "2"
Contents == {<<49>>, <<50>>}

\* what a caller sends as the name of a snippet, of a folder, of an update
ReqNames == {nA, nAa, nBB, nDotDot, nTraversal, nNul}
FolderNames == {nAa, nBB, nDotDot, nTraversal, nNul, nSlash}
UpdateNames == {nEmpty, nA, nBB, nTraversal}

\* what an external change may create: directories and files
DiskDirNames == {nAa, nBB}
DiskFileNames == {nA \o SqlSuffix, nAa \o SqlSuffix, nBB \o SqlSuffix, DSStore}
NestedDirName == nA
DeepFileName == nA \o SqlSuffix
ExternalContent == <<49>>
UpdateContent == <<50>>

\* the tree never holds more than MaxNodes files and directories
MaxNodes == 3

\* the strings the model hashes, for the table below
\* the snippet files and the folder of the listing scenario
nB == <<98>>
ListDirName == nAa
ListFileNames == (DiskFileNames \ {DSStore}) \cup {nB \o SqlSuffix}
ListFolderFileNames == {nA \o SqlSuffix}

\* the snippet files of a long listing: s001.sql, s002.sql, ... in a root
\* without folders
MaxListed == 101
ManyName(k) == <<115, 48 + (k \div 100), 48 + ((k \div 10) % 10), 48 + (k % 10)>>
ManyFileNames == {ManyName(k) \o SqlSuffix : k \in 1..MaxListed}

\* the folders of the folder-scoping scenario: "a" and "Aa" have different
\* ids, "Aa" and "BB" the same
ScopeFolderNames == {nA, nAa, nBB}
MaxScopeNodes == 4

HashedNames ==
    DiskDirNames \cup DiskFileNames \cup FolderNames \cup ScopeFolderNames \cup {nUnknown}
    \cup ListFileNames
    \cup {n \o SqlSuffix : n \in ReqNames \cup UpdateNames}

\* deterministicUUID of the strings the model meets, computed once
uuidTable1 == [s \in HashedNames \cup ManyFileNames |-> uuidOfInput(s)]
uuidTable2 ==
    [s \in {uuidTable1[d] \o <<chUnderscore>> \o f :
                d \in DiskDirNames \cup ScopeFolderNames \cup {nUnknown}, f \in HashedNames}
             \cup {d \o <<chUnderscore>> \o f : d \in DiskDirNames, f \in HashedNames}
        |-> uuidOfInput(s)]

cleanedInputs(inputs) == SelectSeq(inputs, LAMBDA s : s # <<>>)

\* deterministicUUID.  With nothing to hash the code returns uuid.NewString();
\* no call of the repository reaches that branch (a file name ends in
\* ".sql", a directory name is not empty), and it is <<>> here.
deterministicUUID(inputs) ==
    Only({IF input = <<>> THEN <<>>
          ELSE IF input \in DOMAIN uuidTable1 THEN uuidTable1[input]
          ELSE IF input \in DOMAIN uuidTable2 THEN uuidTable2[input]
          ELSE uuidOfInput(input) :
             input \in {JoinWith(cleanedInputs(inputs), chUnderscore)}})

(***************************************************************************)
(* The directory tree under the root: a function from the paths that exist *)
(* (a path is the sequence of names below the root, the root itself is     *)
(* <<>> and always exists) to what is there.                               *)
(***************************************************************************)
\* a time.Time: whole seconds and the nanoseconds within the second
TimeZero == [sec |-> 0, nsec |-> 0]
TimeAt(sec, nsec) == [sec |-> sec, nsec |-> nsec]

\* Time.Before
Before(t, u) == t.sec < u.sec \/ (t.sec = u.sec /\ t.nsec < u.nsec)

\* Time.Format(time.RFC3339): the text carries whole seconds only; it is
\* kept as the one-element sequence of the second count
FormatRFC3339(t) == <<t.sec>>

\* a node of the tree: a directory or a file with its content, and the
\* modification time of its stat metadata.  No operation of the repository
\* reads the modification time of a directory into a result.
\* perm is the mode of the node: 0o755 = 493 and 0o644 = 420 as the code
\* creates them, 0 after a chmod from outside
DirNode == [kind |-> "dir", content |-> <<>>, mtime |-> TimeZero, perm |-> 493]
FileNode(c) == [kind |-> "file", content |-> c, mtime |-> TimeZero, perm |-> 420]

\* whether os.ReadFile and os.WriteFile can open the node
Readable(node) == node.perm >= 256
Writable(node) == (node.perm % 256) >= 128

EmptyTree == [p \in {} |-> DirNode]

IsDirAt(tree, path) ==
    path = <<>> \/ (path \in DOMAIN tree /\ tree[path].kind = "dir")

Parent(path) == SubSeq(path, 1, Len(path) - 1)

IsPrefix(p, q) == Len(p) <= Len(q) /\ SubSeq(q, 1, Len(p)) = p

\* the names in the directory dir
ChildNames(tree, dir) ==
    {p[Len(p)] : p \in {q \in DOMAIN tree : Len(q) = Len(dir) + 1 /\ IsPrefix(dir, q)}}

Restrict(tree, paths) == [p \in paths |-> tree[p]]

WithNode(tree, path, node) ==
    [p \in DOMAIN tree \cup {path} |-> IF p = path THEN node ELSE tree[p]]

(***************************************************************************)
(* filepath.Join(root, elems...): the elements that are not empty, joined  *)
(* by the separator and cleaned.  The result is given relative to the      *)
(* root: `up` counts the ancestors of the root it climbed to, `path` is    *)
(* what follows.                                                           *)
(***************************************************************************)
\* the positions of the separators of s, and the components between them
SlashPositions(s) == {i \in 1..Len(s) : s[i] = chSlash}

SplitSlash(s) ==
    Only({[k \in 1..(Len(at) + 1) |->
              SubSeq(s, (IF k = 1 THEN 1 ELSE at[k - 1] + 1),
                        (IF k = Len(at) + 1 THEN Len(s) ELSE at[k] - 1))] :
             at \in {SortedInts(SlashPositions(s))}})

\* Clean, one component at a time
CleanStep(at, c) ==
    IF c = <<>> \/ c = <<chDot>> THEN at
    ELSE IF c = <<chDot, chDot>>
    THEN IF Len(at.path) > 0
         THEN [at EXCEPT !.path = Parent(at.path)]
         ELSE [at EXCEPT !.up = at.up + 1]
    ELSE [at EXCEPT !.path = Append(at.path, c)]

RECURSIVE CleanFrom(_, _, _)
CleanFrom(at, comps, i) ==
    IF i > Len(comps) THEN at
    ELSE Only({CleanFrom(next, comps, i + 1) : next \in {CleanStep(at, comps[i])}})

RootAt == [up |-> 0, path |-> <<>>]

\* filepath.Join(root, elems[1], ...)
JoinRoot(elems) ==
    Only({CleanFrom(RootAt, comps, 1) :
             comps \in {SplitSlash(JoinWith(cleanedInputs(elems), chSlash))}})

RECURSIVE StripTrailingSlashes(_)
StripTrailingSlashes(s) ==
    IF Len(s) > 0 /\ s[Len(s)] = chSlash
    THEN StripTrailingSlashes(SubSeq(s, 1, Len(s) - 1))
    ELSE s

\* filepath.Base: "." for the empty path, the separator for a path of
\* separators only, else the last element after the trailing separators
\* are dropped
Base(path) ==
    IF path = <<>> THEN <<chDot>>
    ELSE Only({IF stripped = <<>> THEN <<chSlash>>
               ELSE Only({comps[Len(comps)] : comps \in {SplitSlash(stripped)}}) :
                  stripped \in {StripTrailingSlashes(path)}})

(***************************************************************************)
(* The calls of package os.  Each gives the tree after the call and        *)
(* whether it failed; `at` is a result of JoinRoot.  The root and its      *)
(* ancestors are directories that exist.                                   *)
(***************************************************************************)
OsOk(tree) == [err |-> "", tree |-> tree]
OsErr(e, tree) == [err |-> e, tree |-> tree]

Outside(at) == at.up > 0 \/ at.path = <<>>

\* os.MkdirAll
MkdirAll(tree, at) ==
    IF Outside(at) THEN OsOk(tree)
    ELSE LET prefixes == {SubSeq(at.path, 1, k) : k \in 1..Len(at.path)}
         IN IF \E p \in prefixes : p \in DOMAIN tree /\ tree[p].kind = "file"
            THEN OsErr("ENOTDIR", tree)
            ELSE OsOk([p \in DOMAIN tree \cup prefixes |->
                          IF p \in DOMAIN tree THEN tree[p] ELSE DirNode])

\* the modification time os.WriteFile stamps: the clock has not moved since
\* the latest modification of the tree
LatestTime(tree) ==
    CHOOSE t \in {TimeZero} \cup {tree[p].mtime : p \in DOMAIN tree} :
        \A p \in DOMAIN tree : ~Before(t, tree[p].mtime)

\* os.WriteFile
WriteFile(tree, at, content) ==
    IF Outside(at) THEN OsErr("EISDIR", tree)
    ELSE IF ~IsDirAt(tree, Parent(at.path)) THEN OsErr("ENOENT", tree)
    ELSE IF IsDirAt(tree, at.path) THEN OsErr("EISDIR", tree)
    ELSE IF at.path \in DOMAIN tree /\ ~Writable(tree[at.path]) THEN OsErr("EACCES", tree)
    ELSE OsOk(WithNode(tree, at.path,
                       [FileNode(content) EXCEPT !.mtime = LatestTime(tree),
                                                 !.perm = IF at.path \in DOMAIN tree
                                                          THEN tree[at.path].perm
                                                          ELSE 420]))

\* two faulty variants of os.Remove: one removes nothing, one removes the
\* whole directory of the file
RemoveNothing(tree, at) == OsOk(tree)

RemoveWithSiblings(tree, at) ==
    OsOk(Restrict(tree, {p \in DOMAIN tree : Parent(p) # Parent(at.path)}))

\* os.Remove
Remove(tree, at) ==
    IF Outside(at) THEN OsErr("ENOTEMPTY", tree)
    ELSE IF at.path \notin DOMAIN tree THEN OsErr("ErrNotExist", tree)
    ELSE IF tree[at.path].kind = "dir" /\ ChildNames(tree, at.path) # {}
    THEN OsErr("ENOTEMPTY", tree)
    ELSE OsOk(Restrict(tree, DOMAIN tree \ {at.path}))

\* a faulty variant of os.RemoveAll: it empties the snippets directory
RemoveAllOfRoot(tree, at) == OsOk(EmptyTree)

\* os.RemoveAll
RemoveAll(tree, at) ==
    IF at.up > 0 THEN OsErr("EACCES", tree)
    ELSE OsOk(Restrict(tree, {p \in DOMAIN tree : ~IsPrefix(at.path, p)}))

\* two of the values uuid.NewString() may return
NewStrings == {deterministicUUID(<<nUnknown>>), deterministicUUID(<<nA>>)}

\* a faulty variant of the operator below: every call draws a new value
deterministicUUIDFresh(inputs) == NewStrings

\* what a call of deterministicUUID may return: with nothing to hash, any
\* value of uuid.NewString()
deterministicUUIDOutcomes(inputs) ==
    IF JoinWith(cleanedInputs(inputs), chUnderscore) = <<>> THEN NewStrings
    ELSE {deterministicUUID(inputs)}

(***************************************************************************)
(* The snippet repository: internal/api/snippets.go.  An operation is an   *)
(* operator from the tree before the call to a record of the error it      *)
(* returns ("" for nil), the value it returns, the tree after the call     *)
(* and the calls of package os it made on paths below snippetsDir().       *)
(***************************************************************************)
errSnippetNotFound == "snippet not found"
errSnippetAlreadyExists == "snippet already exists"
errSnippetExistsInTargetFolder == "snippet already exists in target folder"
errFolderNotFound == "folder not found"
errFolderNameRequired == "folder name is required"
errFolderAlreadyExists == "folder already exists"

sanitizeName(name) ==
    Only({IF base # name \/ ContainsRune(name, chNul) THEN <<>> ELSE base :
             base \in {Base(name)}})

\* what buildSnippet, the scanner and updateSnippet hash for a file
\* a faulty variant of idInputs: the folder is left out
idInputsOfName(name, folderID) == <<name \o SqlSuffix>>

idInputs(name, folderID) ==
    IF folderID # NilPtr
    THEN <<folderID[1], name \o SqlSuffix>>
    ELSE <<name \o SqlSuffix>>

\* info.ModTime()
ModTime(tree, path) == tree[path].mtime

\* the entry of a top-level directory; parts is its path below the root
FolderEntry(tree, parts) ==
    [ID |-> deterministicUUID(<<parts[Len(parts)]>>), Name |-> parts[Len(parts)],
     Type |-> "folder", FolderID |-> NilPtr, Content |-> <<>>,
     CreatedAt |-> ModTime(tree, parts)]

\* a faulty variant of FileEntry: the name of the folder is hashed, not its id
FileEntryByFolderName(tree, parts) ==
    Only({[ID |-> deterministicUUID(IF Len(parts) = 1 THEN <<name \o SqlSuffix>>
                                    ELSE <<parts[1], name \o SqlSuffix>>),
           Name |-> name, Type |-> "file", FolderID |-> folderID,
           Content |-> tree[parts].content, CreatedAt |-> ModTime(tree, parts)] :
             name \in {TrimSuffix(parts[Len(parts)], SqlSuffix)},
             folderID \in {IF Len(parts) = 1 THEN NilPtr
                           ELSE Ptr(deterministicUUID(<<parts[1]>>))}})

\* the entry of a file; parts is its path below the root
FileEntry(tree, parts) ==
    Only({[ID |-> deterministicUUID(idInputs(name, folderID)), Name |-> name,
           Type |-> "file", FolderID |-> folderID, Content |-> tree[parts].content,
           CreatedAt |-> ModTime(tree, parts)] :
             name \in {TrimSuffix(parts[Len(parts)], SqlSuffix)},
             folderID \in {IF Len(parts) = 1 THEN NilPtr
                           ELSE Ptr(deterministicUUID(<<parts[1]>>))}})

\* a faulty variant of the test below: every file is taken for a snippet
IsAnyFileName(fileName) == TRUE

IsSqlFileName(fileName) == fileName # DSStore /\ HasSuffix(fileName, SqlSuffix)

\* contentBytes, err := os.ReadFile(path); if err != nil { return nil }:
\* the file is left out of the entries and the walk goes on
readFile(tree, path) ==
    IF ~Readable(tree[path]) THEN <<>> ELSE <<FileEntry(tree, path)>>

\* filepath.WalkDir with the walk function of getFilesystemEntries: the
\* names of a directory in lexical order, a directory before what it holds
RECURSIVE walk(_, _)
RECURSIVE WalkDir(_, _, _, _)
walk(tree, path) ==
    IF tree[path].kind = "dir"
    THEN IF Len(path) > 1 THEN <<>>
         ELSE Only({<<FolderEntry(tree, path)>> \o WalkDir(tree, path, names, 1) :
                       names \in {SortNames(ChildNames(tree, path))}})
    ELSE IF ~IsSqlFileName(path[Len(path)]) THEN <<>>
    ELSE readFile(tree, path)

WalkDir(tree, dir, names, i) ==
    IF i > Len(names) THEN <<>>
    ELSE Only({here \o WalkDir(tree, dir, names, i + 1) :
                  here \in {walk(tree, Append(dir, names[i]))}})

getFilesystemEntries(tree) ==
    Only({WalkDir(tree, <<>>, names, 1) : names \in {SortNames(ChildNames(tree, <<>>))}})

NoSnippet ==
    [ID |-> <<>>, InsertedAt |-> <<>>, UpdatedAt |-> <<>>, Name |-> <<>>, SQL |-> <<>>,
     FolderID |-> NilPtr]
NoFolder == [ID |-> <<>>, Name |-> <<>>, ParentID |-> NilPtr]

buildSnippet(name, content, folderID, createdAt) ==
    [ID |-> deterministicUUID(idInputs(name, folderID)),
     InsertedAt |-> FormatRFC3339(createdAt), UpdatedAt |-> FormatRFC3339(createdAt),
     Name |-> name, SQL |-> content, FolderID |-> folderID]

OsCall(fn, at) == [fn |-> fn, at |-> at]

Result(err, ret, tree, calls) ==
    [err |-> err, ret |-> ret, folder |-> NoFolder, folders |-> <<>>,
     list |-> <<>>, cursor |-> <<>>, tree |-> tree, calls |-> calls]
FolderResult(err, folder, tree, calls) ==
    [err |-> err, ret |-> NoSnippet, folder |-> folder, folders |-> <<>>,
     list |-> <<>>, cursor |-> <<>>, tree |-> tree, calls |-> calls]
ListResult(err, cursor, list, tree) ==
    [err |-> err, ret |-> NoSnippet, folder |-> NoFolder, folders |-> <<>>,
     list |-> list, cursor |-> cursor, tree |-> tree, calls |-> <<>>]

\* a faulty variant of the loop below: the type of the entry is not looked at
MatchingAnyType(entries, id, kind) ==
    SelectSeq(entries, LAMBDA entry : entry.ID = id)

\* the entries a loop `entry.ID == id && entry.Type == kind` meets, in order
Matching(entries, id, kind) ==
    SelectSeq(entries, LAMBDA entry : entry.ID = id /\ entry.Type = kind)

getSnippet(tree, id) ==
    Only({IF found = <<>> THEN Result(errSnippetNotFound, NoSnippet, tree, <<>>)
          ELSE Result("", buildSnippet(found[1].Name, found[1].Content, found[1].FolderID,
                                       found[1].CreatedAt),
                      tree, <<>>) :
             found \in {Matching(getFilesystemEntries(tree), id, "file")}})

errLimitExceedsMax == "limit cannot exceed 1000"
DefaultLimit == 100
MaxLimit == 1000

\* strings.ToLower and strings.Contains, on the letters A..Z and a..z
\* a faulty variant of ToLower: upper case stays
ToLowerNot(str) == str

ToLower(str) == [k \in DOMAIN str |-> IF str[k] >= 65 /\ str[k] <= 90 THEN str[k] + 32 ELSE str[k]]

\* strings.Contains
Contains(str, substr) ==
    \E k \in 0..(Len(str) - Len(substr)) : SubSeq(str, k + 1, k + Len(substr)) = substr

\* a faulty variant of matchesFolder: every file matches every folder
matchesAnyFolder(fileFolder, targetFolder) == TRUE

matchesFolder(fileFolder, targetFolder) ==
    \/ fileFolder = NilPtr /\ targetFolder = NilPtr
    \/ fileFolder # NilPtr /\ targetFolder # NilPtr /\ fileFolder[1] = targetFolder[1]

\* a faulty variant of lessEntry: the name decides whatever the sort field
lessByName(a, b, sortField) == StrLess(ToLower(a.Name), ToLower(b.Name))

\* the less function of the sort of getSnippets
lessEntry(a, b, sortField) ==
    IF sortField = "name" THEN StrLess(ToLower(a.Name), ToLower(b.Name))
    ELSE Before(a.CreatedAt, b.CreatedAt)

\* sort.SliceStable: entries that compare equal keep their order
SliceStable(entries, sortField) ==
    Only({[r \in DOMAIN entries |-> entries[CHOOSE k \in DOMAIN entries : rank[k] = r]] :
             rank \in {[k \in DOMAIN entries |->
                          1 + Cardinality({j \in DOMAIN entries :
                                \/ lessEntry(entries[j], entries[k], sortField)
                                \/ /\ ~lessEntry(entries[k], entries[j], sortField)
                                   /\ j < k})]}})

Reverse(seq) == [k \in DOMAIN seq |-> seq[Len(seq) + 1 - k]]

\* a faulty variant of startAfter: a cursor that names no entry leaves
\* nothing to return
startAfterStrict(filtered, cursor) ==
    IF cursor = <<>> THEN filtered
    ELSE IF \E k \in DOMAIN filtered : filtered[k].ID = cursor
    THEN SubSeq(filtered,
                1 + CHOOSE k \in DOMAIN filtered :
                       /\ filtered[k].ID = cursor
                       /\ \A j \in 1..(k - 1) : filtered[j].ID # cursor,
                Len(filtered))
    ELSE <<>>

\* filtered[start:], start being one past the first entry whose id is the
\* cursor, and 0 with no cursor or no such entry
startAfter(filtered, cursor) ==
    IF cursor # <<>> /\ \E k \in DOMAIN filtered : filtered[k].ID = cursor
    THEN SubSeq(filtered,
                1 + CHOOSE k \in DOMAIN filtered :
                       /\ filtered[k].ID = cursor
                       /\ \A j \in 1..(k - 1) : filtered[j].ID # cursor,
                Len(filtered))
    ELSE filtered

\* a faulty variant of effectiveLimit: no default
limitAsGiven(limit) == IF limit <= 0 THEN MaxLimit ELSE limit

\* the limit after the default is applied
effectiveLimit(limit) == IF limit <= 0 THEN DefaultLimit ELSE limit

\* a faulty variant of limitExceeded: the maximum itself is refused
limitAtLeastMax(lim) == lim >= MaxLimit

limitExceeded(lim) == lim > MaxLimit

\* a faulty variant of nextCursorOf: the id of the first entry of the page
nextCursorFirst(rest, lim) == IF Len(rest) > lim THEN rest[1].ID ELSE <<>>

\* the cursor returned with the page rest[:lim]
nextCursorOf(rest, lim) == IF Len(rest) > lim THEN rest[lim].ID ELSE <<>>

\* getSnippets from the cursor on; filtered is sorted and ordered
pageOf(tree, filtered, limit, cursor) ==
    Only({IF limitExceeded(lim) THEN ListResult(errLimitExceedsMax, <<>>, <<>>, tree)
          ELSE ListResult("", nextCursorOf(rest, lim),
                          [k \in 1..(IF Len(rest) > lim THEN lim ELSE Len(rest)) |->
                              buildSnippet(rest[k].Name, rest[k].Content, rest[k].FolderID,
                                           rest[k].CreatedAt)],
                          tree) :
             rest \in {startAfter(filtered, cursor)},
             lim \in {effectiveLimit(limit)}})

getSnippets(tree, searchTerm, limit, cursor, sortField, sortOrder, folderID) ==
    Only({Only({pageOf(tree, IF sortOrder = "desc" THEN Reverse(sorted) ELSE sorted,
                       limit, cursor) :
                   sorted \in {SliceStable(filtered, sortField)}}) :
             filtered \in
                {SelectSeq(getFilesystemEntries(tree),
                           LAMBDA entry :
                               /\ entry.Type = "file"
                               /\ IF searchTerm # <<>>
                                  THEN Contains(ToLower(entry.Name), ToLower(searchTerm))
                                  ELSE matchesFolder(entry.FolderID, folderID))}})

\* saveSnippet from os.WriteFile on
saveWrite(tree, newSnippet, name, filePath) ==
    Only({IF written.err # ""
          THEN Result(written.err, NoSnippet, written.tree, <<OsCall("WriteFile", filePath)>>)
          ELSE Result("", buildSnippet(name, newSnippet.SQL, newSnippet.FolderID,
                                       ModTime(written.tree, filePath.path)),
                      written.tree, <<OsCall("WriteFile", filePath)>>) :
             written \in {WriteFile(tree, filePath, newSnippet.SQL)}})

\* saveSnippet after its checks: folders are the folder entries whose id is
\* *newSnippet.FolderID, the first of them gives folderPath
saveInto(tree, newSnippet, folders) ==
    Only({Only({saveWrite(tree, newSnippet, name, filePath) :
                   filePath \in {JoinRoot(folderPath \o <<name \o SqlSuffix>>)}}) :
             name \in {sanitizeName(newSnippet.Name)},
             folderPath \in {IF newSnippet.FolderID # NilPtr /\ folders # <<>>
                             THEN <<folders[1].Name>> ELSE <<>>}})

saveSnippet(tree, newSnippet) ==
    Only({IF Matching(entries, newSnippet.ID, "file") # <<>>
          THEN Result(errSnippetAlreadyExists, NoSnippet, tree, <<>>)
          ELSE IF newSnippet.FolderID # NilPtr
                  /\ Matching(entries, newSnippet.FolderID[1], "folder") = <<>>
          THEN Result(errFolderNotFound, NoSnippet, tree, <<>>)
          ELSE saveInto(tree, newSnippet,
                        IF newSnippet.FolderID = NilPtr THEN <<>>
                        ELSE Matching(entries, newSnippet.FolderID[1], "folder")) :
             entries \in {getFilesystemEntries(tree)}})

\* deleteSnippet once the target is found
deleteTarget(tree, entries, target) ==
    Only({Only({IF removed.err # "" /\ removed.err # "ErrNotExist"
                THEN Result(removed.err, NoSnippet, removed.tree, <<OsCall("Remove", filePath)>>)
                ELSE Result("", NoSnippet, removed.tree, <<OsCall("Remove", filePath)>>) :
                   removed \in {Remove(tree, filePath)}}) :
             filePath \in
                {JoinRoot((IF target.FolderID = NilPtr THEN <<>>
                           ELSE [k \in DOMAIN Matching(entries, target.FolderID[1], "folder")
                                    |-> Matching(entries, target.FolderID[1], "folder")[k].Name])
                          \o <<target.Name \o SqlSuffix>>)}})

deleteSnippet(tree, id) ==
    Only({IF Matching(entries, id, "file") = <<>>
          THEN Result(errSnippetNotFound, NoSnippet, tree, <<>>)
          ELSE deleteTarget(tree, entries, Matching(entries, id, "file")[1]) :
             entries \in {getFilesystemEntries(tree)}})

\* the fields of an update: name and sql are NilPtr when updates["name"],
\* updates["content"]["sql"] is no string; hasFolder is whether the key
\* folder_id is there, folder its value (NilPtr for null)
NoUpdates == [name |-> NilPtr, hasFolder |-> FALSE, folder |-> NilPtr, sql |-> NilPtr]

\* updateSnippet from api.deleteSnippet(found.ID) on
updateReplace(tree, found, newID, name, folderID, content) ==
    Only({IF deleted.err # "" THEN deleted
          ELSE Only({[saved EXCEPT !.calls = deleted.calls \o saved.calls] :
                        saved \in {saveSnippet(deleted.tree,
                                               [ID |-> newID, Name |-> name,
                                                SQL |-> content, FolderID |-> folderID])}}) :
             deleted \in {deleteSnippet(tree, found.ID)}})

\* a faulty variant of the loop below: no conflict is ever seen
neverInTargetFolder(entries, newID, found) == FALSE

\* the loop of updateSnippet over the entries, for the new id
existsInTargetFolder(entries, newID, found) ==
    \E k \in DOMAIN entries :
        /\ entries[k].ID = newID
        /\ entries[k].Type = "file"
        /\ entries[k].ID # found.ID

\* updateSnippet once the entry is found
updateFound(tree, entries, found, updates) ==
    Only({Only({IF existsInTargetFolder(entries, newID, found)
                THEN Result(errSnippetExistsInTargetFolder, NoSnippet, tree, <<>>)
                ELSE updateReplace(tree, found, newID, name, folderID,
                                   IF updates.sql # NilPtr THEN updates.sql[1]
                                   ELSE found.Content) :
                   newID \in {deterministicUUID(idInputs(name, folderID))}}) :
             name \in {IF updates.name # NilPtr /\ updates.name[1] # <<>>
                       THEN updates.name[1] ELSE found.Name},
             folderID \in {IF updates.hasFolder THEN updates.folder ELSE found.FolderID}})

updateSnippet(tree, id, updates) ==
    Only({IF Matching(entries, id, "file") = <<>>
          THEN Result(errSnippetNotFound, NoSnippet, tree, <<>>)
          ELSE updateFound(tree, entries, Matching(entries, id, "file")[1], updates) :
             entries \in {getFilesystemEntries(tree)}})

\* a faulty variant of getFolders: the folder asked for is not looked at
getFoldersOfAnyParent(tree, folderID) ==
    Only({[k \in DOMAIN folders |->
              [ID |-> folders[k].ID, Name |-> folders[k].Name, ParentID |-> NilPtr]] :
             folders \in {SelectSeq(getFilesystemEntries(tree),
                                    LAMBDA entry : entry.Type = "folder")}})

getFolders(tree, folderID) ==
    Only({[k \in DOMAIN folders |->
              [ID |-> folders[k].ID, Name |-> folders[k].Name, ParentID |-> NilPtr]] :
             folders \in {SelectSeq(getFilesystemEntries(tree),
                                    LAMBDA entry : /\ entry.Type = "folder"
                                                   /\ entry.FolderID = NilPtr
                                                   /\ folderID = NilPtr)}})

\* createFolder from os.MkdirAll on
createMkdir(tree, name, folderPath) ==
    Only({IF made.err # ""
          THEN FolderResult(made.err, NoFolder, made.tree, <<OsCall("MkdirAll", folderPath)>>)
          ELSE FolderResult("", [ID |-> deterministicUUID(<<name>>), Name |-> name,
                                 ParentID |-> NilPtr],
                            made.tree, <<OsCall("MkdirAll", folderPath)>>) :
             made \in {MkdirAll(tree, folderPath)}})

createFolder(tree, rawName) ==
    Only({IF name = <<>> THEN FolderResult(errFolderNameRequired, NoFolder, tree, <<>>)
          ELSE IF \E k \in DOMAIN entries :
                     entries[k].Type = "folder" /\ entries[k].Name = name
          THEN FolderResult(errFolderAlreadyExists, NoFolder, tree, <<>>)
          ELSE Only({createMkdir(tree, name, folderPath) :
                        folderPath \in {JoinRoot(<<name>>)}}) :
             name \in {sanitizeName(rawName)},
             entries \in {getFilesystemEntries(tree)}})

deleteFolder(tree, id) ==
    Only({IF target = <<>> THEN Result(errFolderNotFound, NoSnippet, tree, <<>>)
          ELSE Only({Result(removed.err, NoSnippet, removed.tree,
                            <<OsCall("RemoveAll", JoinRoot(<<target[1].Name>>))>>) :
                        removed \in {RemoveAll(tree, JoinRoot(<<target[1].Name>>))}}) :
             target \in {Matching(getFilesystemEntries(tree), id, "folder")}})

(***************************************************************************)
(* What callers send.                                                      *)
(***************************************************************************)
UnknownID == deterministicUUID(<<nUnknown>>)

\* the ids of a request: every id of the scan, and one that names nothing
ReqIds(tree) ==
    Only({{entries[k].ID : k \in DOMAIN entries} \cup {UnknownID} :
             entries \in {getFilesystemEntries(tree)}})

\* the folder of a request: none, a folder by its id, an id of no folder
ReqFolders == {NilPtr, Ptr(UnknownID)} \cup {Ptr(deterministicUUID(<<d>>)) : d \in DiskDirNames}

ReqUpdates ==
    [name : {NilPtr} \cup {Ptr(n) : n \in UpdateNames},
     hasFolder : {FALSE}, folder : {NilPtr}, sql : {NilPtr, Ptr(UpdateContent)}]
    \cup
    [name : {NilPtr} \cup {Ptr(n) : n \in UpdateNames},
     hasFolder : {TRUE}, folder : ReqFolders, sql : {NilPtr, Ptr(UpdateContent)}]

\* what list is asked for
SearchTerms == {<<>>, nA}
Limits == {0, 1}
ListFolderIDs == {NilPtr} \cup {Ptr(deterministicUUID(<<d>>)) : d \in DiskDirNames}

(***************************************************************************)
(* The state: the tree under the root, and the last call with what it      *)
(* returned and the tree it started from.  A call is answered in one step  *)
(* (the repository has no state of its own and the handlers of one request *)
(* run to the end); between calls anything may change the tree.            *)
(***************************************************************************)
\* cfg is the configuration the process was started with; calls is what
\* the requests that are being served at the same time have done so far
\* (none, where one call is answered in one step)
VARIABLES fs, pre, last, cfg, calls

vars == <<fs, pre, last, cfg, calls>>

\* SNIPPETS_MANAGEMENT_FOLDER: "/s", or not set
RootPath == <<47, 115>>
Configs == {[SnippetsFolder |-> RootPath], [SnippetsFolder |-> <<>>]}

errSnippetsFolderEnvNotSet ==
    "snippets management folder env var (SNIPPETS_MANAGEMENT_FOLDER) is not set; set it to use snippets properly"

\* a faulty variant of snippetsDir: a folder is assumed when none is set
snippetsDirAssumed == OsOk(fs)

\* snippetsDir(): the root exists, os.MkdirAll of it changes nothing
snippetsDir ==
    IF cfg.SnippetsFolder = <<>> THEN OsErr(errSnippetsFolderEnvNotSet, fs) ELSE OsOk(fs)

\* every operation begins with snippetsDir(), most of them through
\* getFilesystemEntries, and returns its error with the zero value
WithSnippetsDir(res) ==
    IF snippetsDir.err # "" THEN Result(snippetsDir.err, NoSnippet, fs, <<>>) ELSE res

\* no request is being served beside the one of `last`
NoCalls == <<>>

NoArgs ==
    [id |-> <<>>, name |-> <<>>, sql |-> <<>>, folder |-> NilPtr, updates |-> NoUpdates,
     limit |-> 0, sortField |-> "", sortOrder |-> "", parts |-> <<>>]

Idle ==
    [op |-> "none", args |-> NoArgs, err |-> "", ret |-> NoSnippet,
     folder |-> NoFolder, folders |-> <<>>, list |-> <<>>, cursor |-> <<>>,
     calls |-> <<>>, pages |-> <<>>]

Called(op, args, res) ==
    [op |-> op, args |-> args, err |-> res.err, ret |-> res.ret,
     folder |-> res.folder, folders |-> res.folders, list |-> res.list,
     cursor |-> res.cursor, calls |-> res.calls, pages |-> <<>>]

Init ==
    /\ fs = EmptyTree /\ pre = EmptyTree /\ last = Idle
    /\ cfg = [SnippetsFolder |-> RootPath] /\ calls = NoCalls

\* the process was started without SNIPPETS_MANAGEMENT_FOLDER
UnsetInit ==
    /\ fs = EmptyTree /\ pre = EmptyTree /\ last = Idle
    /\ cfg = [SnippetsFolder |-> <<>>] /\ calls = NoCalls

Answer(op, args, res) ==
    /\ Cardinality(DOMAIN res.tree) <= MaxNodes
    /\ fs' = res.tree
    /\ UNCHANGED <<cfg, calls>>
    /\ pre' = fs
    /\ last' = Called(op, args, res)

\* the response is sent, the next request may come
Respond ==
    /\ last.op # "none"
    /\ last' = Idle
    /\ pre' = EmptyTree
    /\ UNCHANGED <<fs, cfg, calls>>

Get ==
    /\ last.op = "none"
    /\ \E id \in ReqIds(fs) :
        \E res \in {WithSnippetsDir(getSnippet(fs, id))} :
            Answer("get", [NoArgs EXCEPT !.id = id], res)

\* list: the name searched is args.name, the cursor args.id
List ==
    /\ last.op = "none"
    /\ \E searchTerm \in SearchTerms, limit \in Limits, cursor \in {<<>>, UnknownID},
          sortOrder \in {"asc", "desc"}, folder \in ListFolderIDs :
        \E res \in {WithSnippetsDir(getSnippets(fs, searchTerm, limit, cursor, "name",
                                                   sortOrder, folder))} :
            Answer("list", [NoArgs EXCEPT !.name = searchTerm, !.limit = limit,
                                          !.id = cursor, !.sortField = "name",
                                          !.sortOrder = sortOrder, !.folder = folder], res)

Create ==
    /\ last.op = "none"
    /\ \E name \in ReqNames, sql \in Contents, folder \in ReqFolders :
        \E id \in {UnknownID, deterministicUUID(idInputs(name, folder))} :
            \E res \in {WithSnippetsDir(saveSnippet(fs, [ID |-> id, Name |-> name, SQL |-> sql,
                                                          FolderID |-> folder]))} :
                Answer("create", [NoArgs EXCEPT !.id = id, !.name = name, !.sql = sql,
                                                !.folder = folder], res)

Update ==
    /\ last.op = "none"
    /\ \E id \in ReqIds(fs), updates \in ReqUpdates :
        \E res \in {WithSnippetsDir(updateSnippet(fs, id, updates))} :
            Answer("update", [NoArgs EXCEPT !.id = id, !.updates = updates], res)

Delete ==
    /\ last.op = "none"
    /\ \E id \in ReqIds(fs) :
        \E res \in {WithSnippetsDir(deleteSnippet(fs, id))} :
            Answer("delete", [NoArgs EXCEPT !.id = id], res)

ListFolders ==
    /\ last.op = "none"
    /\ \E folder \in ReqFolders :
        \E res \in {WithSnippetsDir([Result("", NoSnippet, fs, <<>>)
                                        EXCEPT !.folders = getFolders(fs, folder)])} :
            Answer("listFolders", [NoArgs EXCEPT !.folder = folder], res)

CreateFolder ==
    /\ last.op = "none"
    /\ \E name \in FolderNames :
        \E res \in {WithSnippetsDir(createFolder(fs, name))} :
            Answer("createFolder", [NoArgs EXCEPT !.name = name], res)

DeleteFolder ==
    /\ last.op = "none"
    /\ \E id \in ReqIds(fs) :
        \E res \in {WithSnippetsDir(deleteFolder(fs, id))} :
            Answer("deleteFolder", [NoArgs EXCEPT !.id = id], res)

(***************************************************************************)
(* External changes: the tree is the database, edited by hand or by        *)
(* another process between two calls.                                      *)
(***************************************************************************)
ExternalDirs ==
    {<<d>> : d \in DiskDirNames} \cup {<<d, NestedDirName>> : d \in DiskDirNames}

ExternalFiles ==
    {<<f>> : f \in DiskFileNames}
    \cup {<<d, f>> : d \in DiskDirNames, f \in DiskFileNames}
    \cup {<<d, NestedDirName, DeepFileName>> : d \in DiskDirNames}

ExternalMkdir ==
    \E path \in ExternalDirs :
        /\ last.op = "none"
        /\ path \notin DOMAIN fs
        /\ IsDirAt(fs, Parent(path))
        /\ Cardinality(DOMAIN fs) < MaxNodes
        /\ fs' = WithNode(fs, path, DirNode)
        /\ UNCHANGED <<pre, last, cfg, calls>>

ExternalWrite ==
    \E path \in ExternalFiles :
        /\ last.op = "none"
        /\ path \notin DOMAIN fs
        /\ IsDirAt(fs, Parent(path))
        /\ Cardinality(DOMAIN fs) < MaxNodes
        /\ fs' = WithNode(fs, path, FileNode(ExternalContent))
        /\ UNCHANGED <<pre, last, cfg, calls>>

ExternalRemove ==
    \E path \in DOMAIN fs :
        /\ last.op = "none"
        /\ fs' = Restrict(fs, {p \in DOMAIN fs : ~IsPrefix(path, p)})
        /\ UNCHANGED <<pre, last, cfg, calls>>

(***************************************************************************)
(* The folder-scoping scenario: folders and snippets of one name are       *)
(* created through the repository in a tree of up to MaxScopeNodes nodes,  *)
(* and listed folder by folder.                                            *)
(***************************************************************************)
ScopeFolderIDs == {NilPtr} \cup {Ptr(deterministicUUID(<<d>>)) : d \in ScopeFolderNames}

ScopeAnswer(op, args, res) ==
    /\ Cardinality(DOMAIN res.tree) <= MaxScopeNodes
    /\ fs' = res.tree
    /\ UNCHANGED <<cfg, calls>>
    /\ pre' = fs
    /\ last' = Called(op, args, res)

ScopeCreateFolder ==
    /\ last.op = "none"
    /\ \E name \in ScopeFolderNames :
        \E res \in {createFolder(fs, name)} :
            ScopeAnswer("createFolder", [NoArgs EXCEPT !.name = name], res)

ScopeCreate ==
    /\ last.op = "none"
    /\ \E sql \in Contents, folder \in ScopeFolderIDs :
        \E id \in {UnknownID, deterministicUUID(idInputs(nA, folder))} :
            \E res \in {saveSnippet(fs, [ID |-> id, Name |-> nA, SQL |-> sql, FolderID |-> folder])} :
                ScopeAnswer("create", [NoArgs EXCEPT !.id = id, !.name = nA, !.sql = sql,
                                                     !.folder = folder], res)

ScopeList ==
    /\ last.op = "none"
    /\ \E sortOrder \in {"asc", "desc"}, folder \in ScopeFolderIDs \cup {Ptr(UnknownID)} :
        \E res \in {getSnippets(fs, <<>>, 0, <<>>, "name", sortOrder, folder)} :
            ScopeAnswer("list", [NoArgs EXCEPT !.sortField = "name", !.sortOrder = sortOrder,
                                               !.folder = folder], res)

ScopeNext ==
    \/ ScopeCreateFolder
    \/ ScopeCreate
    \/ ScopeList
    \/ Respond

ScopeSpec == Init /\ [][ScopeNext]_vars

(***************************************************************************)
(* Listing: snippet files with any modification time are put into a tree   *)
(* of up to MaxNodes nodes from outside; a client asks for one page, or    *)
(* walks the pages of a listing: it starts with an empty cursor and sends  *)
(* the cursor of each page back with the same parameters until a page      *)
(* comes without one.  last.pages is what the walk has received so far     *)
(* (its first MaxNodes + 1 items), and the tree does not change during a   *)
(* walk.                                                                   *)
(***************************************************************************)
ListFiles ==
    {<<f>> : f \in ListFileNames} \cup {<<ListDirName, f>> : f \in ListFolderFileNames}
Times == {TimeAt(0, 0), TimeAt(0, 1), TimeAt(1, 0)}

ListSearchTerms == {<<>>, nA, <<66>>}
ListLimits == {0 - 1, 0, 1, 2, MaxLimit + 1}
PageLimits == {1, 2, MaxLimit}
SortFields == {"name", "inserted_at"}
SortOrders == {"asc", "desc"}

ListMkdir ==
    /\ last.op = "none"
    /\ <<ListDirName>> \notin DOMAIN fs
    /\ Cardinality(DOMAIN fs) < MaxNodes
    /\ fs' = WithNode(fs, <<ListDirName>>, DirNode)
    /\ UNCHANGED <<pre, last, cfg, calls>>

ListTouch ==
    /\ last.op = "none"
    /\ \E path \in ListFiles, t \in Times :
        /\ path \notin DOMAIN fs
        /\ IsDirAt(fs, Parent(path))
        /\ Cardinality(DOMAIN fs) < MaxNodes
        /\ fs' = WithNode(fs, path, [FileNode(ExternalContent) EXCEPT !.mtime = t])
        /\ UNCHANGED <<pre, last, cfg, calls>>

ListArgs(searchTerm, limit, cursor, sortField, sortOrder, folder) ==
    [NoArgs EXCEPT !.name = searchTerm, !.limit = limit, !.id = cursor,
                   !.sortField = sortField, !.sortOrder = sortOrder, !.folder = folder]

\* one page, asked for with any cursor
ListOnce ==
    /\ last.op = "none"
    /\ \E searchTerm \in ListSearchTerms, limit \in ListLimits,
          cursor \in {<<>>} \cup ReqIds(fs), sortField \in SortFields,
          sortOrder \in SortOrders, folder \in ListFolderIDs :
        \E res \in {getSnippets(fs, searchTerm, limit, cursor, sortField, sortOrder, folder)} :
            /\ last' = Called("list", ListArgs(searchTerm, limit, cursor, sortField,
                                               sortOrder, folder), res)
            /\ pre' = fs
            /\ fs' = res.tree
            /\ UNCHANGED <<cfg, calls>>

StartPaging ==
    /\ last.op = "none"
    /\ \E searchTerm \in ListSearchTerms, limit \in PageLimits, sortField \in SortFields,
          sortOrder \in SortOrders, folder \in ListFolderIDs :
        \E res \in {getSnippets(fs, searchTerm, limit, <<>>, sortField, sortOrder, folder)} :
            /\ last' = [Called("page", ListArgs(searchTerm, limit, <<>>, sortField,
                                                sortOrder, folder), res)
                           EXCEPT !.pages = res.list]
            /\ pre' = fs
            /\ fs' = res.tree
            /\ UNCHANGED <<cfg, calls>>

NextPage ==
    /\ last.op = "page"
    /\ last.cursor # <<>>
    /\ \E res \in {getSnippets(fs, last.args.name, last.args.limit, last.cursor,
                                last.args.sortField, last.args.sortOrder, last.args.folder)} :
        \E received \in {last.pages \o res.list} :
            /\ last' = [Called("page", [last.args EXCEPT !.id = last.cursor], res)
                           EXCEPT !.pages = SubSeq(received, 1,
                                                   IF Len(received) > MaxNodes + 1
                                                   THEN MaxNodes + 1 ELSE Len(received))]
            /\ pre' = fs
            /\ fs' = res.tree
            /\ UNCHANGED <<cfg, calls>>

\* the response is sent; a walk ends with the page that has no cursor
ListRespond ==
    /\ last.op = "list" \/ (last.op = "page" /\ last.cursor = <<>>)
    /\ last' = Idle
    /\ pre' = EmptyTree
    /\ UNCHANGED <<fs, cfg, calls>>

ListNext ==
    \/ ListMkdir
    \/ ListTouch
    \/ ListOnce
    \/ StartPaging
    \/ NextPage
    \/ ListRespond

\* a client that walks the pages keeps asking for the next one
ListSpec == Init /\ [][ListNext]_vars /\ WF_vars(NextPage)

(***************************************************************************)
(* Long listings: the root holds n snippet files and nothing else, and one *)
(* page of the listing by name in ascending order is asked for.  The scan  *)
(* of such a root yields the files in the order of their names, which is   *)
(* the order of the sort, so that getSnippets is pageOf of these entries.  *)
(***************************************************************************)
ManyTree(n) ==
    [p \in {<<ManyName(k) \o SqlSuffix>> : k \in 1..n} |-> FileNode(ExternalContent)]

ManyEntries(tree) ==
    [k \in 1..Cardinality(DOMAIN tree) |-> FileEntry(tree, <<ManyName(k) \o SqlSuffix>>)]

ManyCounts == {0, 1, 2, MaxListed - 2, MaxListed - 1, MaxListed}
ManyLimits ==
    {0 - 1, 0, 1, 2, DefaultLimit - 1, DefaultLimit, DefaultLimit + 1, MaxLimit, MaxLimit + 1}
ManyCursors(tree) ==
    {<<>>, UnknownID}
    \cup {deterministicUUID(<<ManyName(k) \o SqlSuffix>>) :
              k \in {1, 2, Cardinality(DOMAIN tree)} \cap 1..Cardinality(DOMAIN tree)}

ManyInit ==
    /\ fs \in {ManyTree(n) : n \in ManyCounts} /\ pre = EmptyTree /\ last = Idle
    /\ cfg = [SnippetsFolder |-> RootPath] /\ calls = NoCalls

ManyList ==
    /\ last.op = "none"
    /\ \E limit \in ManyLimits, cursor \in ManyCursors(fs) :
        \E res \in {pageOf(fs, ManyEntries(fs), limit, cursor)} :
            /\ last' = Called("list", ListArgs(<<>>, limit, cursor, "name", "asc", NilPtr), res)
            /\ pre' = fs
            /\ fs' = res.tree
            /\ UNCHANGED <<cfg, calls>>

ManyNext ==
    \/ ManyList
    \/ Respond

ManySpec == ManyInit /\ [][ManyNext]_vars

(***************************************************************************)
(* The identity generator on its own: deterministicUUID is called with a   *)
(* list of one or two strings, and called again with the same list, in the *)
(* same process or in another (the function reads nothing a process        *)
(* keeps).                                                                 *)
(***************************************************************************)
\* "alxexlnb": the loop of simpleHash ends on -2^31 for it
nMinHash == <<97, 108, 120, 101, 120, 108, 110, 98>>

\* one code point above 2^16: U+1F600
nAstral == <<128512>>

PartStrings ==
    {<<>>, nA, nAa, nBB, nMinHash, nAstral, deterministicUUID(<<nAa>>), UnknownID}
    \cup DiskFileNames

PartLists == {<<s>> : s \in PartStrings} \cup {<<s, t>> : s \in PartStrings, t \in PartStrings}

Identified(op, parts, id) ==
    [Idle EXCEPT !.op = op, !.args = [NoArgs EXCEPT !.parts = parts],
                 !.ret = [NoSnippet EXCEPT !.ID = id]]

Identify ==
    /\ last.op = "none"
    /\ \E parts \in PartLists :
        \E id \in deterministicUUIDOutcomes(parts) :
            last' = Identified("identify", parts, id)
    /\ UNCHANGED <<fs, pre, cfg, calls>>

IdentifyAgain ==
    /\ last.op \in {"identify", "identifyAgain"}
    /\ \E id \in deterministicUUIDOutcomes(last.args.parts) :
        last' = Identified("identifyAgain", last.args.parts, id)
    /\ UNCHANGED <<fs, pre, cfg, calls>>

IdentNext ==
    \/ Identify
    \/ IdentifyAgain
    \/ Respond

IdentSpec == Init /\ [][IdentNext]_vars

Next ==
    \/ Get
    \/ List
    \/ Create
    \/ Update
    \/ Delete
    \/ ListFolders
    \/ CreateFolder
    \/ DeleteFolder
    \/ Respond
    \/ ExternalMkdir
    \/ ExternalWrite
    \/ ExternalRemove

Spec == Init /\ [][Next]_vars

\* the same requests and external changes, served by a process that was
\* started without a snippets folder
UnsetSpec == UnsetInit /\ [][Next]_vars

(***************************************************************************)
(* Read failures: between two calls a file of the tree may lose its        *)
(* permissions (chmod 000), so that os.ReadFile fails on it during the     *)
(* next scan.  The tree is built by the external changes of the main       *)
(* specification; a call is any of the eight operations.                   *)
(***************************************************************************)
ExternalChmod ==
    \E path \in DOMAIN fs :
        /\ last.op = "none"
        /\ fs[path].kind = "file"
        /\ fs[path].perm # 0
        /\ fs' = [fs EXCEPT ![path].perm = 0]
        /\ UNCHANGED <<pre, last, cfg, calls>>

\* the operation op of the repository with the parameters args
Call(tree, op, args) ==
    CASE op = "get" -> getSnippet(tree, args.id)
      [] op = "list" -> getSnippets(tree, args.name, args.limit, <<>>, args.sortField,
                                    args.sortOrder, args.folder)
      [] op = "create" -> saveSnippet(tree, [ID |-> args.id, Name |-> args.name,
                                             SQL |-> args.sql, FolderID |-> args.folder])
      [] op = "update" -> updateSnippet(tree, args.id, args.updates)
      [] op = "delete" -> deleteSnippet(tree, args.id)
      [] op = "listFolders" -> [Result("", NoSnippet, tree, <<>>)
                                   EXCEPT !.folders = getFolders(tree, args.folder)]
      [] op = "createFolder" -> createFolder(tree, args.name)
      [] op = "deleteFolder" -> deleteFolder(tree, args.id)

\* the ids a client may know: those of the scan, those of the files the
\* scan cannot read, and one that names nothing
KnownIds(tree) ==
    ReqIds(tree) \cup {deterministicUUID(IF Len(p) = 1 THEN <<p[1]>>
                                        ELSE <<deterministicUUID(<<p[1]>>), p[2]>>) :
                          p \in {q \in DOMAIN tree : tree[q].kind = "file" /\ Len(q) <= 2}}

Request(op, args) == [op |-> op, args |-> args]

Requests(tree) ==
    {Request("get", [NoArgs EXCEPT !.id = id]) : id \in KnownIds(tree)}
    \cup {Request("list", [NoArgs EXCEPT !.folder = folder, !.sortField = "name",
                                         !.sortOrder = "asc"]) : folder \in ListFolderIDs}
    \cup {Request("create", [NoArgs EXCEPT !.id = deterministicUUID(idInputs(nA, folder)),
                                           !.name = nA, !.sql = UpdateContent,
                                           !.folder = folder]) : folder \in ListFolderIDs}
    \cup {Request("update", [NoArgs EXCEPT !.id = id, !.updates = updates]) :
              id \in KnownIds(tree),
              updates \in {[NoUpdates EXCEPT !.sql = Ptr(UpdateContent)],
                           [NoUpdates EXCEPT !.name = Ptr(nBB)]}}
    \cup {Request("delete", [NoArgs EXCEPT !.id = id]) : id \in KnownIds(tree)}
    \cup {Request("listFolders", NoArgs)}
    \cup {Request("createFolder", [NoArgs EXCEPT !.name = name]) : name \in DiskDirNames}
    \cup {Request("deleteFolder", [NoArgs EXCEPT !.id = id]) : id \in KnownIds(tree)}

FaultCall ==
    /\ last.op = "none"
    /\ \E req \in Requests(fs) :
        \E res \in {WithSnippetsDir(Call(fs, req.op, req.args))} :
            Answer(req.op, req.args, res)

FaultNext ==
    \/ ExternalMkdir
    \/ ExternalWrite
    \/ ExternalChmod
    \/ ExternalRemove
    \/ FaultCall
    \/ Respond

FaultSpec == Init /\ [][FaultNext]_vars

(***************************************************************************)
(* Concurrent requests.  net/http serves every request on a goroutine of   *)
(* its own and the repository takes no lock: the calls of two requests     *)
(* interleave at every call of package os.  calls[p] is how far request p  *)
(* has come: pc names the function or the os call it will execute next,    *)
(* and the other fields are the local variables that are still needed.  A  *)
(* scan is one step, and so is each os call; pre is the tree when the      *)
(* first of the requests came.                                             *)
(***************************************************************************)
Procs == {1, 2}

NoNewSnippet == [ID |-> <<>>, Name |-> <<>>, SQL |-> <<>>, FolderID |-> NilPtr]

\* a request that has not come; alone is whether no other request was
\* being served at any time between the coming of this one and its return
NoCall ==
    [op |-> "none", pc |-> "none", args |-> NoArgs, id |-> <<>>,
     newSnippet |-> NoNewSnippet, name |-> <<>>, filePath |-> RootAt,
     err |-> "", ret |-> NoSnippet, alone |-> TRUE]

Returned(call, err, ret) == [call EXCEPT !.pc = "return", !.err = err, !.ret = ret]

\* a faulty variant of updateContent: the content found is not carried over
updateContentDropped(found, updates) ==
    IF updates.sql # NilPtr THEN updates.sql[1] ELSE <<>>

\* the content of the snippet that updateSnippet saves
updateContent(found, updates) ==
    IF updates.sql # NilPtr THEN updates.sql[1] ELSE found.Content

\* updateSnippet up to its call of deleteSnippet
updateResolve(tree, call) ==
    Only({IF Matching(entries, call.args.id, "file") = <<>>
          THEN Returned(call, errSnippetNotFound, NoSnippet)
          ELSE Only({IF existsInTargetFolder(entries,
                                             deterministicUUID(idInputs(name, folderID)), found)
                     THEN Returned(call, errSnippetExistsInTargetFolder, NoSnippet)
                     ELSE [call EXCEPT
                              !.pc = "deleteSnippet",
                              !.id = found.ID,
                              !.newSnippet =
                                  [ID |-> deterministicUUID(idInputs(name, folderID)),
                                   Name |-> name,
                                   SQL |-> updateContent(found, call.args.updates),
                                   FolderID |-> folderID]] :
                        found \in {Matching(entries, call.args.id, "file")[1]},
                        name \in {IF call.args.updates.name # NilPtr
                                     /\ call.args.updates.name[1] # <<>>
                                  THEN call.args.updates.name[1]
                                  ELSE Matching(entries, call.args.id, "file")[1].Name},
                        folderID \in {IF call.args.updates.hasFolder
                                      THEN call.args.updates.folder
                                      ELSE Matching(entries, call.args.id, "file")[1].FolderID}}) :
             entries \in {getFilesystemEntries(tree)}})

\* deleteSnippet up to its call of os.Remove
deleteResolve(tree, call) ==
    Only({IF Matching(entries, call.id, "file") = <<>>
          THEN Returned(call, errSnippetNotFound, NoSnippet)
          ELSE Only({[call EXCEPT
                         !.pc = "Remove",
                         !.filePath =
                             JoinRoot((IF target.FolderID = NilPtr THEN <<>>
                                       ELSE [k \in DOMAIN Matching(entries, target.FolderID[1], "folder")
                                                |-> Matching(entries, target.FolderID[1], "folder")[k].Name])
                                      \o <<target.Name \o SqlSuffix>>)] :
                        target \in {Matching(entries, call.id, "file")[1]}}) :
             entries \in {getFilesystemEntries(tree)}})

\* a faulty variant of deleteRemove: a file that is already gone is an error
deleteRemoveStrict(call, removed) ==
    IF removed.err # "" THEN Returned(call, removed.err, NoSnippet)
    ELSE IF call.op = "update" THEN [call EXCEPT !.pc = "saveSnippet"]
    ELSE Returned(call, "", NoSnippet)

\* the end of deleteSnippet, removed being what os.Remove(filePath) did;
\* updateSnippet goes on to saveSnippet
deleteRemove(call, removed) ==
    IF removed.err # "" /\ removed.err # "ErrNotExist"
    THEN Returned(call, removed.err, NoSnippet)
    ELSE IF call.op = "update" THEN [call EXCEPT !.pc = "saveSnippet"]
    ELSE Returned(call, "", NoSnippet)

\* a faulty variant of saveResolve: the entries are not looked at
saveResolveUnchecked(tree, call) ==
    [call EXCEPT !.pc = "WriteFile",
                 !.name = sanitizeName(call.newSnippet.Name),
                 !.filePath = JoinRoot(<<sanitizeName(call.newSnippet.Name) \o SqlSuffix>>)]

\* saveSnippet up to its call of os.WriteFile
saveResolve(tree, call) ==
    Only({IF Matching(entries, call.newSnippet.ID, "file") # <<>>
          THEN Returned(call, errSnippetAlreadyExists, NoSnippet)
          ELSE IF call.newSnippet.FolderID # NilPtr
                  /\ Matching(entries, call.newSnippet.FolderID[1], "folder") = <<>>
          THEN Returned(call, errFolderNotFound, NoSnippet)
          ELSE Only({[call EXCEPT
                         !.pc = "WriteFile",
                         !.name = name,
                         !.filePath = JoinRoot(folderPath \o <<name \o SqlSuffix>>)] :
                        name \in {sanitizeName(call.newSnippet.Name)},
                        folderPath \in
                            {IF call.newSnippet.FolderID # NilPtr
                             THEN <<Matching(entries, call.newSnippet.FolderID[1], "folder")[1].Name>>
                             ELSE <<>>}}) :
             entries \in {getFilesystemEntries(tree)}})

\* saveSnippet after os.WriteFile(filePath, ...), written being what it did
saveWritten(call, written) ==
    IF written.err # "" THEN Returned(call, written.err, NoSnippet)
    ELSE [call EXCEPT !.pc = "Stat"]

\* info, err := os.Stat(filePath) and the end of saveSnippet
saveStat(tree, call) ==
    IF call.filePath.path \notin DOMAIN tree THEN Returned(call, "ErrNotExist", NoSnippet)
    ELSE Returned(call, "", buildSnippet(call.name, call.newSnippet.SQL,
                                         call.newSnippet.FolderID,
                                         ModTime(tree, call.filePath.path)))

\* the requests of the concurrent clients: root-level snippets a and b are
\* created, renamed to Aa and deleted; request p sends the content p
RaceNames == {nA, nB}
RaceContent(p) == <<48 + p>>
RaceUpdates == {[NoUpdates EXCEPT !.name = Ptr(nAa)]}
RaceIds(tree) ==
    Only({{entries[k].ID : k \in DOMAIN entries} : entries \in {getFilesystemEntries(tree)}})

Serving(call) == call.op # "none" /\ call.pc # "return"

RaceInit ==
    /\ fs = EmptyTree /\ pre = EmptyTree /\ last = Idle
    /\ cfg = [SnippetsFolder |-> RootPath]
    /\ calls = [p \in Procs |-> NoCall]

\* request p comes and its handler calls the repository
Begin(p, call) ==
    /\ pre' = IF \A q \in Procs : calls[q].op = "none" THEN fs ELSE pre
    /\ calls' = [q \in Procs |->
                    IF q = p THEN [call EXCEPT !.alone = \A r \in Procs : ~Serving(calls[r])]
                    ELSE IF Serving(calls[q]) THEN [calls[q] EXCEPT !.alone = FALSE]
                    ELSE calls[q]]
    /\ UNCHANGED <<fs, last, cfg>>

BeginCreate ==
    \E p \in Procs, name \in RaceNames :
        /\ calls[p].op = "none"
        /\ Begin(p, [NoCall EXCEPT
                        !.op = "create", !.pc = "saveSnippet",
                        !.args = [NoArgs EXCEPT !.name = name, !.sql = RaceContent(p)],
                        !.newSnippet = [ID |-> deterministicUUID(idInputs(name, NilPtr)),
                                        Name |-> name, SQL |-> RaceContent(p),
                                        FolderID |-> NilPtr]])

BeginUpdate ==
    \E p \in Procs, id \in RaceIds(fs), updates \in RaceUpdates :
        /\ calls[p].op = "none"
        /\ Begin(p, [NoCall EXCEPT
                        !.op = "update", !.pc = "updateSnippet",
                        !.args = [NoArgs EXCEPT !.id = id, !.updates = updates]])

BeginDelete ==
    \E p \in Procs, id \in RaceIds(fs) :
        /\ calls[p].op = "none"
        /\ Begin(p, [NoCall EXCEPT
                        !.op = "delete", !.pc = "deleteSnippet", !.id = id,
                        !.args = [NoArgs EXCEPT !.id = id]])

\* one step of request p that reads the tree
Reads(p, call) ==
    /\ calls' = [calls EXCEPT ![p] = call]
    /\ UNCHANGED <<fs, pre, last, cfg>>

UpdateResolve ==
    \E p \in Procs :
        /\ calls[p].pc = "updateSnippet"
        /\ Reads(p, updateResolve(fs, calls[p]))

DeleteResolve ==
    \E p \in Procs :
        /\ calls[p].pc = "deleteSnippet"
        /\ Reads(p, deleteResolve(fs, calls[p]))

SaveResolve ==
    \E p \in Procs :
        /\ calls[p].pc = "saveSnippet"
        /\ Reads(p, saveResolve(fs, calls[p]))

SaveStat ==
    \E p \in Procs :
        /\ calls[p].pc = "Stat"
        /\ Reads(p, saveStat(fs, calls[p]))


DeleteRemove ==
    \E p \in Procs :
        /\ calls[p].pc = "Remove"
        /\ \E removed \in {Remove(fs, calls[p].filePath)} :
            /\ fs' = removed.tree
            /\ calls' = [calls EXCEPT ![p] = deleteRemove(calls[p], removed)]
        /\ UNCHANGED <<pre, last, cfg>>

SaveWriteFile ==
    \E p \in Procs :
        /\ calls[p].pc = "WriteFile"
        /\ \E written \in {WriteFile(fs, calls[p].filePath, calls[p].newSnippet.SQL)} :
            /\ fs' = written.tree
            /\ calls' = [calls EXCEPT ![p] = saveWritten(calls[p], written)]
        /\ UNCHANGED <<pre, last, cfg>>

\* the responses are sent, the next requests may come
RaceRespond ==
    /\ \E p \in Procs : calls[p].op # "none"
    /\ \A p \in Procs : ~Serving(calls[p])
    /\ calls' = [p \in Procs |-> NoCall]
    /\ pre' = EmptyTree
    /\ UNCHANGED <<fs, last, cfg>>

RaceNext ==
    \/ BeginCreate \/ BeginUpdate \/ BeginDelete
    \/ UpdateResolve \/ DeleteResolve \/ DeleteRemove
    \/ SaveResolve \/ SaveWriteFile \/ SaveStat
    \/ RaceRespond

RaceSpec == RaceInit /\ [][RaceNext]_vars

(***************************************************************************)
(* What the tree holds, said without the scanner: the snippet files and    *)
(* the folders, by their paths.                                            *)
(***************************************************************************)
Range(seq) == {seq[k] : k \in DOMAIN seq}

TopDirs(tree) == {p \in DOMAIN tree : Len(p) = 1 /\ tree[p].kind = "dir"}

SnippetPaths(tree) ==
    {p \in DOMAIN tree :
        /\ tree[p].kind = "file"
        /\ HasSuffix(p[Len(p)], SqlSuffix)
        /\ p[Len(p)] # DSStore
        /\ Len(p) = 1 \/ (Len(p) = 2 /\ <<p[1]>> \in TopDirs(tree))}

\* the snippet a snippet file stands for, the folder a directory stands for
SnippetAt(tree, p) ==
    [ID |-> deterministicUUID(IF Len(p) = 1 THEN <<p[1]>>
                              ELSE <<deterministicUUID(<<p[1]>>), p[2]>>),
     InsertedAt |-> <<tree[p].mtime.sec>>, UpdatedAt |-> <<tree[p].mtime.sec>>,
     Name |-> TrimSuffix(p[Len(p)], SqlSuffix),
     SQL |-> tree[p].content,
     FolderID |-> IF Len(p) = 1 THEN NilPtr ELSE Ptr(deterministicUUID(<<p[1]>>))]

FolderAt(p) == [ID |-> deterministicUUID(<<p[1]>>), Name |-> p[1], ParentID |-> NilPtr]

\* the snippet files an id resolves to
PathsOfID(tree, id) == {p \in SnippetPaths(tree) : SnippetAt(tree, p).ID = id}

\* no two snippet files and no two folders share an id
UniqueIDs(tree) ==
    /\ \A p, q \in SnippetPaths(tree) : SnippetAt(tree, p).ID = SnippetAt(tree, q).ID => p = q
    /\ \A p, q \in TopDirs(tree) : FolderAt(p).ID = FolderAt(q).ID => p = q

\* the folder filters that name a folder of the tree, and none
FolderFilters(tree) == {NilPtr} \cup {Ptr(FolderAt(p).ID) : p \in TopDirs(tree)}

\* a name with no separator and no NUL in it, and not empty
ValidName(name) ==
    name # <<>> /\ ~ContainsRune(name, chSlash) /\ ~ContainsRune(name, chNul)

\* the name and the folder an update asks for; a name "" asks for nothing
MergedName(old, updates) ==
    IF updates.name # NilPtr /\ updates.name[1] # <<>> THEN updates.name[1] ELSE old.Name
MergedFolder(old, updates) ==
    IF updates.hasFolder THEN updates.folder ELSE old.FolderID
MergedSQL(old, updates) ==
    IF updates.sql # NilPtr THEN updates.sql[1] ELSE old.SQL

(***************************************************************************)
(* C1.  After any sequence of operations and external changes, the         *)
(* snippets seen through list and get are exactly the .sql files directly  *)
(* in the root or directly in a top-level directory, each listed once, and *)
(* the folders seen through listFolders are exactly the top-level          *)
(* directories; what lies deeper and what is no .sql file is in no result. *)
(***************************************************************************)
ListedSnippets(tree, folder) == getSnippets(tree, <<>>, 0, <<>>, "name", "asc", folder).list

C1_ScanVisibility ==
    /\ last.op = "none" =>
        /\ UNION {Range(ListedSnippets(fs, f)) : f \in FolderFilters(fs)}
              = {SnippetAt(fs, p) : p \in SnippetPaths(fs)}
        /\ \A f \in FolderFilters(fs) :
              Len(ListedSnippets(fs, f))
                 = Cardinality({p \in SnippetPaths(fs) : SnippetAt(fs, p).FolderID = f})
        /\ \A id \in ReqIds(fs) :
              /\ getSnippet(fs, id).err = "" <=> PathsOfID(fs, id) # {}
              /\ getSnippet(fs, id).err = ""
                    => getSnippet(fs, id).ret \in {SnippetAt(fs, p) : p \in SnippetPaths(fs)}
        /\ Range(getFolders(fs, NilPtr)) = {FolderAt(p) : p \in TopDirs(fs)}
        /\ Len(getFolders(fs, NilPtr)) = Cardinality(TopDirs(fs))
    /\ last.op = "list" /\ last.err = ""
          => Range(last.list) \subseteq {SnippetAt(pre, p) : p \in SnippetPaths(pre)}
    /\ last.op = "get" /\ last.err = ""
          => last.ret \in {SnippetAt(pre, p) : p \in SnippetPaths(pre)}
    /\ last.op = "listFolders"
          => Range(last.folders) \subseteq {FolderAt(p) : p \in TopDirs(pre)}

\* a list that returns a snippet of a folder that also holds a .DS_Store
C1_Witness ==
    /\ last.op = "list" /\ last.err = "" /\ last.list # <<>>
    /\ \E p \in DOMAIN pre : Len(p) = 2 /\ p[2] = DSStore
    /\ \E p \in SnippetPaths(pre) : Len(p) = 2 /\ SnippetAt(pre, p) \in Range(last.list)

(***************************************************************************)
(* C2.  Round trip: when create succeeds for a valid name, get of the id   *)
(* it returned succeeds and returns the name, the folder and the SQL that  *)
(* were created.                                                           *)
(***************************************************************************)
C2_RoundTrip ==
    (last.op = "create" /\ last.err = "" /\ ValidName(last.args.name))
    => LET got == getSnippet(fs, last.ret.ID)
       IN /\ got.err = ""
          /\ got.ret.Name = last.args.name
          /\ got.ret.FolderID = last.args.folder
          /\ got.ret.SQL = last.args.sql

(***************************************************************************)
(* C3.  create fails with AlreadyExists whenever a snippet file with the   *)
(* identity computed from the new snippet's folder and name exists,        *)
(* whatever id the caller sent, and the tree is then as it was.            *)
(***************************************************************************)
C3_CreateAlreadyExists ==
    (/\ last.op = "create"
     /\ PathsOfID(pre, deterministicUUID(idInputs(last.args.name, last.args.folder))) # {})
    => (last.err = errSnippetAlreadyExists /\ fs = pre)

(***************************************************************************)
(* C4.  Path confinement: every path an operation hands to os.MkdirAll,    *)
(* os.WriteFile, os.Remove or os.RemoveAll lies below the root, at depth 1 *)
(* or 2; none is the root, its parent or above.                            *)
(***************************************************************************)
C4_PathConfinement ==
    \A k \in DOMAIN last.calls :
        /\ last.calls[k].at.up = 0
        /\ Len(last.calls[k].at.path) \in {1, 2}

(***************************************************************************)
(* C5.  When sanitizeName maps the name given to create or createFolder to *)
(* the empty string, the operation returns an error and the tree is        *)
(* unchanged.                                                              *)
(***************************************************************************)
C5_RejectedNames ==
    (last.op \in {"create", "createFolder"} /\ sanitizeName(last.args.name) = <<>>)
    => (last.err # "" /\ fs = pre)

(***************************************************************************)
(* C6.  After update succeeds, the file of the snippet is replaced by      *)
(* exactly one file that holds the old name, folder and content overridden *)
(* by the fields of the update; the id returned is the identity of the     *)
(* merged folder and name, get of it returns that snippet, get of the old  *)
(* id fails with NotFound if the identity changed, and an update of the    *)
(* content alone keeps the id.                                             *)
(***************************************************************************)
C6_UpdateMerge ==
    (last.op = "update" /\ last.err = "")
    => \E p \in PathsOfID(pre, last.args.id) :
          LET old == SnippetAt(pre, p)
              merged == buildSnippet(MergedName(old, last.args.updates),
                                     MergedSQL(old, last.args.updates),
                                     MergedFolder(old, last.args.updates),
                                     LatestTime(pre))
              got == getSnippet(fs, last.ret.ID)
          IN /\ last.ret = merged
             /\ got.err = "" /\ got.ret = merged
             /\ \E q \in SnippetPaths(fs) :
                   /\ SnippetAt(fs, q) = merged
                   /\ \A r \in DOMAIN fs \cup DOMAIN pre :
                         r \notin {p, q} => /\ r \in DOMAIN fs \cap DOMAIN pre
                                            /\ fs[r] = pre[r]
                   /\ p # q => p \notin DOMAIN fs
             /\ merged.ID # last.args.id
                   => getSnippet(fs, last.args.id).err = errSnippetNotFound
             /\ (last.args.updates.name = NilPtr /\ ~last.args.updates.hasFolder)
                   => last.ret.ID = last.args.id

C8_NotFound ==
    /\ (last.op \in {"get", "update", "delete"} /\ PathsOfID(pre, last.args.id) = {})
          => (last.err = errSnippetNotFound /\ fs = pre)
    /\ (/\ last.op = "deleteFolder"
        /\ \A p \in TopDirs(pre) : FolderAt(p).ID # last.args.id)
          => (last.err = errFolderNotFound /\ fs = pre)

\* a delete called with the id of a folder that holds a snippet
C8_Witness ==
    /\ last.op = "delete"
    /\ last.err = errSnippetNotFound
    /\ \E p \in TopDirs(pre) : FolderAt(p).ID = last.args.id
    /\ SnippetPaths(pre) # {}

(***************************************************************************)
(* C9.  A successful delete removes exactly the one .sql file of the       *)
(* snippet the id resolves to: afterwards get of the id fails with         *)
(* NotFound, and every other file and every folder is as it was.           *)
(***************************************************************************)
C9_DeleteFrame ==
    (last.op = "delete" /\ last.err = "")
    => /\ \E p \in PathsOfID(pre, last.args.id) : fs = Restrict(pre, DOMAIN pre \ {p})
       /\ getSnippet(fs, last.args.id).err = errSnippetNotFound

\* C9 as it holds: the same, when no two snippet files and no two folders
\* of the tree share an id
C9_DeleteFrameUniqueIDs ==
    (last.op = "delete" /\ last.err = "" /\ UniqueIDs(pre)) => C9_DeleteFrame

\* a delete in a folder that leaves another snippet behind
C9_Witness ==
    /\ last.op = "delete" /\ last.err = "" /\ UniqueIDs(pre)
    /\ \E p \in PathsOfID(pre, last.args.id) : Len(p) = 2
    /\ SnippetPaths(fs) # {}

(***************************************************************************)
(* C10.  Delete idempotence: delete called twice in a row with the same id *)
(* returns no error both times.                                            *)
(***************************************************************************)
C10_DeleteTwice ==
    (last.op = "delete" /\ last.err = "") => deleteSnippet(fs, last.args.id).err = ""

\* C10 as it holds: after a successful delete on a tree whose ids are
\* unique, the same delete called again returns NotFound and changes
\* nothing
C10_SecondDeleteNotFound ==
    (last.op = "delete" /\ last.err = "" /\ UniqueIDs(pre))
    => /\ deleteSnippet(fs, last.args.id).err = errSnippetNotFound
       /\ deleteSnippet(fs, last.args.id).tree = fs

\* a delete that removed the file of its snippet
C10_Witness ==
    /\ last.op = "delete" /\ last.err = "" /\ UniqueIDs(pre)
    /\ \E p \in PathsOfID(pre, last.args.id) : p \notin DOMAIN fs
    /\ Cardinality(DOMAIN fs) = 2

(***************************************************************************)
(* C11.  Cascading folder delete: after deleteFolder(id) succeeds, no      *)
(* folder with that id is listed by getFolders, get fails with NotFound    *)
(* for the id of every snippet that was inside the removed folder, and     *)
(* the root-level snippets and the other folders with their snippets are   *)
(* as they were.                                                           *)
(***************************************************************************)
C11_CascadingDelete ==
    (last.op = "deleteFolder" /\ last.err = "")
    => \E d \in TopDirs(pre) :
          /\ FolderAt(d).ID = last.args.id
          /\ fs = Restrict(pre, {p \in DOMAIN pre : ~IsPrefix(d, p)})
          /\ \A f \in Range(getFolders(fs, NilPtr)) : f.ID # last.args.id
          /\ \A p \in SnippetPaths(pre) :
                (Len(p) = 2 /\ p[1] = d[1])
                => getSnippet(fs, SnippetAt(pre, p).ID).err = errSnippetNotFound

\* C11 as it holds: the same, when no two snippet files and no two folders
\* of the tree share an id
C11_CascadingDeleteUniqueIDs ==
    (last.op = "deleteFolder" /\ last.err = "" /\ UniqueIDs(pre)) => C11_CascadingDelete

\* a deleteFolder that removed a folder with a snippet inside and left a
\* root-level snippet behind
C11_Witness ==
    /\ last.op = "deleteFolder" /\ last.err = "" /\ UniqueIDs(pre)
    /\ \E p \in SnippetPaths(pre) : Len(p) = 2 /\ p \notin DOMAIN fs
    /\ \E p \in SnippetPaths(fs) : Len(p) = 1

(***************************************************************************)
(* C12.  Folder scoping: a create of a name into a folder (or the root)    *)
(* that does not hold the name, while another folder or the root does,     *)
(* succeeds, writes the file of that folder and no other, and returns an   *)
(* id no other copy of the name has; list without a search term returns    *)
(* exactly the snippets of the folder its filter names (of the root for no *)
(* filter).                                                                *)
(***************************************************************************)
\* the directories a folder id names: the root for nil
DirsOfFolder(tree, folder) ==
    IF folder = NilPtr THEN {<<>>}
    ELSE {d \in TopDirs(tree) : FolderAt(d).ID = folder[1]}

C12_FolderScoping ==
    /\ last.op = "create"
       => \A d \in DirsOfFolder(pre, last.args.folder) :
             LET q == Append(d, last.args.name \o SqlSuffix)
                 copies == {p \in SnippetPaths(pre) : p[Len(p)] = q[Len(q)]}
             IN (q \notin DOMAIN pre /\ copies # {})
                => /\ last.err = ""
                   /\ q \in SnippetPaths(fs)
                   /\ last.ret = SnippetAt(fs, q)
                   /\ pre = Restrict(fs, DOMAIN fs \ {q})
                   /\ \A p \in copies : SnippetAt(fs, p).ID # last.ret.ID
    /\ (last.op = "list" /\ last.err = "")
       => \A d \in DirsOfFolder(pre, last.args.folder) :
             /\ Range(last.list) = {SnippetAt(pre, p) : p \in {r \in SnippetPaths(pre) : Parent(r) = d}}
             /\ Len(last.list) = Cardinality({r \in SnippetPaths(pre) : Parent(r) = d})

\* C12 as it holds: the same, when no two snippet files and no two folders
\* of the tree share an id
C12_FolderScopingUniqueIDs == UniqueIDs(pre) => C12_FolderScoping

\* the second create of a name, into another folder than the first
C12_Witness ==
    /\ last.op = "create" /\ last.err = "" /\ UniqueIDs(pre)
    /\ last.args.folder # NilPtr
    /\ \E p \in SnippetPaths(pre) : Len(p) = 2
    /\ \E q \in SnippetPaths(fs) : Len(q) = 2 /\ q \notin DOMAIN pre

(***************************************************************************)
(* C13.  Pagination stability: on an unchanged tree and for a limit in     *)
(* 1..1000, what a walk of the pages has received is at every moment a     *)
(* beginning of the full sorted and filtered listing, shorter than the     *)
(* listing while a cursor is returned and the whole of it when none is,    *)
(* and every walk comes to a page without a cursor.                        *)
(***************************************************************************)
\* the full listing for the parameters of a call
FullListing(tree, args) ==
    getSnippets(tree, args.name, MaxLimit, <<>>, args.sortField, args.sortOrder,
                args.folder).list

PagesAreABeginning ==
    last.op = "page"
    => LET full == FullListing(fs, last.args)
       IN /\ last.err = ""
          /\ Len(last.pages) <= Len(full)
          /\ last.pages = SubSeq(full, 1, Len(last.pages))
          /\ last.cursor = <<>> => last.pages = full
          /\ last.cursor # <<>> => (last.list # <<>> /\ Len(last.pages) < Len(full))

C13_PaginationStability ==
    /\ []PagesAreABeginning
    /\ (last.op = "page") ~> (last.op = "page" /\ last.cursor = <<>>)

\* C13 as it holds: the same, when no two snippet files and no two folders
\* of the tree share an id
C13_PaginationStabilityUniqueIDs ==
    /\ [](UniqueIDs(fs) => PagesAreABeginning)
    /\ (last.op = "page" /\ UniqueIDs(fs)) ~> (last.op = "page" /\ last.cursor = <<>>)

\* the third page of a walk with limit 1 ends the walk of three snippets
C13_Witness ==
    /\ last.op = "page" /\ last.cursor = <<>> /\ UniqueIDs(fs)
    /\ last.args.limit = 1 /\ last.args.id # <<>>
    /\ Len(last.pages) = 3
    /\ Len(last.list) = 1

(***************************************************************************)
(* C14.  For every successful list call the page holds at most limit       *)
(* items (at most 100 when limit <= 0); it is a run of consecutive         *)
(* entries of the sorted and filtered list, nextCursor is non-empty        *)
(* exactly when entries remain behind that run, and it is then the id of   *)
(* the last item of the page.                                              *)
(***************************************************************************)
\* the snippets of a sequence of entries
SnippetsOf(entries) ==
    [k \in DOMAIN entries |->
        buildSnippet(entries[k].Name, entries[k].Content, entries[k].FolderID,
                     entries[k].CreatedAt)]

PageWithin(all, page, cursor, limit) ==
    /\ Len(page) <= (IF limit <= 0 THEN 100 ELSE limit)
    /\ \E start \in 0..(Len(all) - Len(page)) :
          /\ page = SubSeq(all, start + 1, start + Len(page))
          /\ cursor # <<>> <=> start + Len(page) < Len(all)
    /\ cursor # <<>> => (page # <<>> /\ cursor = page[Len(page)].ID)

C14_PageAndCursor ==
    (last.op = "list" /\ last.err = "")
    => PageWithin(SnippetsOf(ManyEntries(fs)), last.list, last.cursor, last.args.limit)

\* a list without a limit of 101 snippets: 100 are returned, with a cursor
C14_Witness ==
    /\ last.op = "list" /\ last.err = ""
    /\ last.args.limit <= 0
    /\ Cardinality(DOMAIN fs) > 100
    /\ Len(last.list) = 100
    /\ last.cursor # <<>>

(***************************************************************************)
(* C15.  Lenient cursor: a list called with a non-empty cursor that is the *)
(* id of no entry of the sorted and filtered list returns what the same    *)
(* call with an empty cursor returns: the same error (none unless the      *)
(* limit is above 1000), the same page and the same nextCursor.            *)
(***************************************************************************)
\* the cursor of the call is the id of no entry of the full listing
CursorNamesNothing(full) ==
    last.args.id # <<>> /\ \A k \in DOMAIN full : full[k].ID # last.args.id

C15_LenientCursor ==
    (last.op = "list" /\ CursorNamesNothing(FullListing(pre, last.args)))
    => LET fresh == getSnippets(pre, last.args.name, last.args.limit, <<>>,
                                last.args.sortField, last.args.sortOrder, last.args.folder)
       IN /\ last.err = fresh.err
          /\ last.args.limit <= 1000 => last.err = ""
          /\ last.list = fresh.list
          /\ last.cursor = fresh.cursor

\* a list of a folder with the id of a root-level snippet as cursor, which
\* returns the snippet of the folder
C15_Witness ==
    /\ last.op = "list" /\ last.err = ""
    /\ last.args.name = <<>> /\ last.args.folder # NilPtr
    /\ \E p \in SnippetPaths(pre) : Len(p) = 1 /\ SnippetAt(pre, p).ID = last.args.id
    /\ CursorNamesNothing(FullListing(pre, last.args))
    /\ Len(last.list) = 1

(***************************************************************************)
(* C16.  list fails with LimitExceeded exactly when limit > 1000 (1001     *)
(* fails, 1000 succeeds), and with limit <= 0 it succeeds and returns the  *)
(* page and the nextCursor of the same call with limit = 100.              *)
(***************************************************************************)
C16_LimitBoundary ==
    last.op = "list"
    => /\ last.err = errLimitExceedsMax <=> last.args.limit > 1000
       /\ last.err = "" <=> last.args.limit <= 1000
       /\ last.args.limit <= 0
          => LET hundred == pageOf(pre, ManyEntries(pre), 100, last.args.id)
             IN /\ last.list = hundred.list
                /\ last.cursor = hundred.cursor

\* a list with limit 1000 of 101 snippets, which returns them all
C16_Witness ==
    /\ last.op = "list" /\ last.err = ""
    /\ last.args.limit = 1000
    /\ Len(last.list) = 101
    /\ last.cursor = <<>>

(***************************************************************************)
(* C17.  With a non-empty search term, list returns the snippets of the    *)
(* root and of all folders whose name contains the term when case is       *)
(* ignored, each once, and returns the same for every folder filter.       *)
(***************************************************************************)
\* a letter with its case ignored
FoldCase(c) == IF c >= 97 /\ c <= 122 THEN c - 32 ELSE c

\* name contains term when case is ignored
ContainsFolded(name, term) ==
    \E k \in 0..(Len(name) - Len(term)) :
        \A j \in 1..Len(term) : FoldCase(name[k + j]) = FoldCase(term[j])

C17_SearchAcrossFolders ==
    (last.op = "list" /\ last.err = "" /\ last.args.name # <<>>)
    => LET full == FullListing(pre, last.args)
           found == {p \in SnippetPaths(pre) :
                        ContainsFolded(SnippetAt(pre, p).Name, last.args.name)}
       IN /\ Range(full) = {SnippetAt(pre, p) : p \in found}
          /\ Len(full) = Cardinality(found)
          /\ \A folder \in FolderFilters(pre) \cup {Ptr(UnknownID)} :
                LET other == getSnippets(pre, last.args.name, last.args.limit, last.args.id,
                                         last.args.sortField, last.args.sortOrder, folder)
                IN other.list = last.list /\ other.cursor = last.cursor /\ other.err = ""

\* a search for "B" filtered by a folder, which returns the root-level
\* snippet BB and leaves out the snippet a of the folder
C17_Witness ==
    /\ last.op = "list" /\ last.err = ""
    /\ last.args.name = <<66>> /\ last.args.folder # NilPtr /\ last.args.id = <<>>
    /\ \E p \in SnippetPaths(pre) : Len(p) = 2
    /\ \E k \in DOMAIN last.list : last.list[k].FolderID = NilPtr /\ last.list[k].Name = nBB
    /\ Len(last.list) = 1

(***************************************************************************)
(* C18.  The ascending listing is non-decreasing in the lower-cased name   *)
(* when sortField is "name" and in the modification time of the files      *)
(* otherwise; the listing with sortOrder "desc" is the ascending listing   *)
(* of the same tree read backwards, items with equal keys included.        *)
(***************************************************************************)
\* the modification time of the file of a listed snippet
TimeOf(tree, item) ==
    tree[CHOOSE p \in SnippetPaths(tree) : SnippetAt(tree, p) = item].mtime

\* item comes no later than other in the ascending order of the sort field
NotAfter(tree, item, other, sortField) ==
    IF sortField = "name"
    THEN ~StrLess(ToLower(other.Name), ToLower(item.Name))
    ELSE ~Before(TimeOf(tree, other), TimeOf(tree, item))

C18_SortOrder ==
    (last.op = "list" /\ last.err = "")
    => LET asc == FullListing(pre, [last.args EXCEPT !.sortOrder = "asc"])
           desc == FullListing(pre, [last.args EXCEPT !.sortOrder = "desc"])
       IN /\ \A i, j \in DOMAIN asc :
                i < j => NotAfter(pre, asc[i], asc[j], last.args.sortField)
          /\ Len(desc) = Len(asc)
          /\ \A k \in DOMAIN asc : desc[k] = asc[Len(asc) + 1 - k]
          /\ last.args.id = <<>>
             => last.list = SubSeq(IF last.args.sortOrder = "desc" THEN desc ELSE asc,
                                   1, Len(last.list))

\* a descending listing by time of three snippets of which two have the
\* same time, and whose order by name is another
C18_Witness ==
    /\ last.op = "list" /\ last.err = ""
    /\ last.args.sortField # "name" /\ last.args.sortOrder = "desc"
    /\ last.args.id = <<>>
    /\ Len(last.list) = 3
    /\ TimeOf(pre, last.list[1]) = TimeOf(pre, last.list[2])
    /\ Before(TimeOf(pre, last.list[3]), TimeOf(pre, last.list[2]))
    /\ StrLess(ToLower(last.list[1].Name), ToLower(last.list[3].Name))

(***************************************************************************)
(* C19.  Identity uniqueness: in every reachable tree, two distinct        *)
(* snippet files (another folder or another name) have different ids.      *)
(***************************************************************************)
\* the file entries of the scan
FileEntries(tree) == SelectSeq(getFilesystemEntries(tree), LAMBDA e : e.Type = "file")

C19_IdentityUniqueness ==
    LET files == FileEntries(fs)
    IN \A i, j \in DOMAIN files : i # j => files[i].ID # files[j].ID

\* C19 as it holds: two distinct snippet files have the same id exactly
\* when the hashes of their id inputs (the file name, behind the id of the
\* folder and "_" inside a folder) agree in their low 24 bits, which are
\* all that the generator of the 16 bytes reads of its seed
InputOf(e) ==
    IF e.FolderID = NilPtr THEN e.Name \o SqlSuffix
    ELSE e.FolderID[1] \o <<chUnderscore>> \o e.Name \o SqlSuffix

LowBits(h) == <<h[1] % 256, h[2]>>

\* "aaabba.sql" and "hbaaag.sql": the hashes 115283744 and 316610336
\* differ by 12 * 2^24
ProbeInputs == {<<97, 97, 97, 98, 98, 97, 46, 115, 113, 108>>, <<104, 98, 97, 97, 97, 103, 46, 115, 113, 108>>}

LowBitsDecide ==
    \A s, t \in ProbeInputs \cup DiskFileNames \cup DiskDirNames :
        (LowBits(simpleHash(s)) = LowBits(simpleHash(t))) <=> (uuidOfInput(s) = uuidOfInput(t))

C19_UniqueUpToHash ==
    /\ LowBitsDecide
    /\ LET files == FileEntries(fs)
       IN \A i, j \in DOMAIN files :
             i # j => ((files[i].ID = files[j].ID)
                       <=> (LowBits(simpleHash(InputOf(files[i])))
                               = LowBits(simpleHash(InputOf(files[j])))))

\* a tree with two snippets of one id and a third of another
C19_Witness ==
    /\ last.op = "none"
    /\ LET files == FileEntries(fs)
       IN /\ Len(files) = 3
          /\ \E i, j \in DOMAIN files : i # j /\ files[i].ID = files[j].ID
          /\ \E i, j \in DOMAIN files : files[i].ID # files[j].ID
    /\ \E s, t \in ProbeInputs : simpleHash(s) # simpleHash(t) /\ uuidOfInput(s) = uuidOfInput(t)

(***************************************************************************)
(* C20.  Determinism: for every non-empty list of strings, a call of       *)
(* deterministicUUID that follows a call with the same list returns the    *)
(* same identifier.                                                        *)
(***************************************************************************)
SameAgain ==
    (last.op \in {"identify", "identifyAgain"} /\ last'.op = "identifyAgain")
    => last'.ret.ID = last.ret.ID

SameAgainWithPart ==
    (\E k \in DOMAIN last.args.parts : last.args.parts[k] # <<>>) => SameAgain

Scanned(tree) ==
    {<<e.Type, e.Name, e.FolderID, e.ID>> : e \in Range(getFilesystemEntries(tree))}

\* the same, from the paths of the tree, with the id of a file in a folder
\* given by folderPart(name of the folder)
ScanOf(tree, folderPart(_)) ==
    {<<"folder", p[1], NilPtr, deterministicUUID(<<p[1]>>)>> : p \in TopDirs(tree)}
    \cup {<<"file", TrimSuffix(p[Len(p)], SqlSuffix),
            IF Len(p) = 1 THEN NilPtr ELSE Ptr(deterministicUUID(<<p[1]>>)),
            deterministicUUID(IF Len(p) = 1 THEN <<p[1]>> ELSE <<folderPart(p[1]), p[2]>>)>> :
              p \in SnippetPaths(tree)}

FolderNamePart(folderName) == folderName
FolderIDPart(folderName) == deterministicUUID(<<folderName>>)

\* the file a successful create or update wrote, and the id the scan of
\* the tree after the call gives it
WrittenPaths == {last.calls[k].at.path : k \in {j \in DOMAIN last.calls : last.calls[j].fn = "WriteFile"}}

ReturnedIsScanned ==
    last.op \in {"create", "update"} /\ last.err = ""
        => /\ Cardinality(WrittenPaths) = 1
           /\ \A p \in WrittenPaths :
                 \E k \in DOMAIN getFilesystemEntries(fs) :
                    /\ getFilesystemEntries(fs)[k].Type = "file"
                    /\ getFilesystemEntries(fs)[k].ID = last.ret.ID
                    /\ getFilesystemEntries(fs)[k].Name = TrimSuffix(p[Len(p)], SqlSuffix)
                    /\ getFilesystemEntries(fs)[k].Name = last.ret.Name
                    /\ getFilesystemEntries(fs)[k].FolderID = last.ret.FolderID
                    /\ getFilesystemEntries(fs)[k].Content = fs[p].content

C21_ScanIdentity ==
    /\ Scanned(fs) = ScanOf(fs, FolderNamePart)
    /\ ReturnedIsScanned

\* C21 with the id of the folder in the place of its name: a .sql file
\* inside a folder has the id identify([identify([folderName]), fileName])
C21_ScanIdentityByFolderID ==
    /\ Scanned(fs) = ScanOf(fs, FolderIDPart)
    /\ ReturnedIsScanned

\* a snippet was created in a folder, or moved into one by an update, and
\* a root-level snippet is there as well
C21_Witness ==
    /\ last.op \in {"create", "update"} /\ last.err = ""
    /\ last.ret.FolderID # NilPtr
    /\ \E p \in SnippetPaths(fs) : Len(p) = 2 /\ p \in WrittenPaths
    /\ \E p \in SnippetPaths(fs) : Len(p) = 1

(***************************************************************************)
(* C22.  For every parts list with at least one non-empty part, identify   *)
(* returns the 16 bytes of the reference algorithm: the non-empty parts    *)
(* joined with "_", h = h*31 + codepoint(c) with signed 32-bit wraparound  *)
(* and then the absolute value, seed = (seed*1103515245 + 12345) mod 2^31  *)
(* sixteen times with (seed >> 16) & 0xFF taken each time; and in every    *)
(* output byte 6 has the high nibble 0100 and byte 8 the high bits 10.     *)
(* The reference is computed on signed integers, by additions that wrap.   *)
(***************************************************************************)
RECURSIVE RefJoin(_)
RefJoin(parts) ==
    IF parts = <<>> THEN <<>>
    ELSE IF Head(parts) = <<>> THEN RefJoin(Tail(parts))
    ELSE Only({IF rest = <<>> THEN Head(parts) ELSE Head(parts) \o <<95>> \o rest :
                  rest \in {RefJoin(Tail(parts))}})

\* a + b on signed 32-bit integers, with wraparound
RefAdd32(a, b) ==
    IF a >= 0 /\ b > 2147483647 - a
    THEN (a + (0 - 2147483647 - 1)) + (b + (0 - 2147483647 - 1))
    ELSE IF a < 0 /\ b < (0 - 2147483647 - 1) - a
    THEN (a + 2147483647 + 1) + (b + 2147483647 + 1)
    ELSE a + b

\* h*k on signed 32-bit integers, with wraparound, by doubling
RECURSIVE RefTimes32(_, _)
RefTimes32(h, k) ==
    IF k = 0 THEN 0
    ELSE Only({IF k % 2 = 1 THEN RefAdd32(twice, h) ELSE twice :
                  twice \in {Only({RefAdd32(half, half) :
                                      half \in {RefTimes32(h, k \div 2)}})}})

\* the rolling hash over input[i..j] from h
RECURSIVE RefHashRange(_, _, _, _)
RefHashRange(h, input, i, j) ==
    IF i > j THEN h
    ELSE IF i = j THEN Only({RefAdd32(m, input[i]) : m \in {RefTimes32(h, 31)}})
    ELSE Only({RefHashRange(left, input, ((i + j) \div 2) + 1, j) :
                  left \in {RefHashRange(h, input, i, (i + j) \div 2)}})

RefRawHash(input) == RefHashRange(0, input, 1, Len(input))

\* the absolute value, modulo 2^31: |-2^31| = 2^31 is 0 modulo 2^31, and the
\* generator below reduces modulo 2^31 in its first step
RefAbs(h) ==
    IF h = 0 - 2147483647 - 1 THEN 0 ELSE IF h < 0 THEN 0 - h ELSE h

\* a + b and a*k modulo 2^31, for a and b in 0..(2^31 - 1)
RefAddMod(a, b) ==
    IF b > 2147483647 - a THEN (a - 2147483647) + (b - 1) ELSE a + b

\* a*d modulo 2^31 for d in 0..16: a = ah*2^27 + al with ah < 16, and
\* 2^27 = 134217728
RefDigitTimesMod(a, d) ==
    RefAddMod((((a \div 134217728) * d) % 16) * 134217728, (a % 134217728) * d)

\* a*k modulo 2^31, k taken four bits at a time
RECURSIVE RefTimesMod(_, _)
RefTimesMod(a, k) ==
    IF k = 0 THEN 0
    ELSE Only({RefAddMod(RefDigitTimesMod(upper, 16), RefDigitTimesMod(a, k % 16)) :
                  upper \in {RefTimesMod(a, k \div 16)}})

\* the bytes of n steps of the generator from seed
RECURSIVE RefGenerate(_, _)
RefGenerate(seed, n) ==
    IF n = 0 THEN <<>>
    ELSE Only({<<(next \div 65536) % 256>> \o RefGenerate(next, n - 1) :
                  next \in {Only({RefAddMod(m, 12345) :
                                     m \in {RefTimesMod(seed, 1103515245)}})}})

RefBytes(input) ==
    Only({RefGenerate(seed, 16) : seed \in {RefAbs(RefRawHash(input))}})

\* the reference bytes with the version and variant bits set
RefPatched(input) ==
    Only({[i \in 1..16 |-> IF i = 7 THEN 64 + (bytes[i] % 16)
                           ELSE IF i = 9 THEN 128 + (bytes[i] % 64)
                           ELSE bytes[i]] :
             bytes \in {RefBytes(input)}})

HasPart(parts) == \E k \in DOMAIN parts : parts[k] # <<>>

C22_ReferenceBytes ==
    last.op \in {"identify", "identifyAgain"} /\ HasPart(last.args.parts)
        => \A input \in {RefJoin(last.args.parts)} :
              /\ uuidBytes(input) = RefPatched(input)
              /\ last.ret.ID = uuidString(RefPatched(input))
              /\ uuidBytes(input)[7] \div 16 = 4
              /\ uuidBytes(input)[9] \div 64 = 2
              /\ last.ret.ID[15] = 52
              /\ last.ret.ID[20] \in {56, 57, 97, 98}

\* the id of two parts, the first of them empty, whose hash wrapped to
\* -2^31, the one value whose negation is itself
C22_Witness ==
    /\ last.op = "identify"
    /\ Len(last.args.parts) = 2
    /\ last.args.parts[1] = <<>>
    /\ RefRawHash(RefJoin(last.args.parts)) = 0 - 2147483647 - 1
    /\ last.ret.ID = uuidString(RefPatched(RefJoin(last.args.parts)))

(***************************************************************************)
(* C23.  createFolder(name) fails with NameRequired when the sanitized     *)
(* name is empty and with AlreadyExists when a folder with that name       *)
(* already exists, leaving the tree unchanged in both cases; when it       *)
(* succeeds, a directory with that name exists directly under the root and *)
(* listFolders returns a Folder with the returned id and name.             *)
(***************************************************************************)
C23_CreateFolder ==
    last.op = "createFolder"
        => /\ sanitizeName(last.args.name) = <<>>
                 => last.err = errFolderNameRequired /\ fs = pre
           /\ sanitizeName(last.args.name) # <<>> /\ <<last.args.name>> \in TopDirs(pre)
                 => last.err = errFolderAlreadyExists /\ fs = pre
           /\ last.err \in {errFolderNameRequired, errFolderAlreadyExists} => fs = pre
           /\ last.err = ""
                 => /\ last.folder.Name = last.args.name
                    /\ <<last.folder.Name>> \in TopDirs(fs)
                    /\ \E k \in DOMAIN getFolders(fs, NilPtr) :
                          /\ getFolders(fs, NilPtr)[k].ID = last.folder.ID
                          /\ getFolders(fs, NilPtr)[k].Name = last.folder.Name

(***************************************************************************)
(* C24.  listFolders returns exactly one Folder, with parentID null, for   *)
(* each top-level directory of the root and never a nested directory;      *)
(* filtering by parent is a no-op: the returned list is the same for every *)
(* value of parentFilter.                                                  *)
(***************************************************************************)
\* the list has one Folder for each top-level directory of tree, no more
OnePerTopDir(tree, folders) ==
    /\ Range(folders) = {FolderAt(p) : p \in TopDirs(tree)}
    /\ Len(folders) = Cardinality(TopDirs(tree))
    /\ \A k \in DOMAIN folders : folders[k].ParentID = NilPtr

C24_ListFolders ==
    last.op = "listFolders" => OnePerTopDir(pre, last.folders)

\* C24 with the filter taken into account: without a parent the list has
\* one Folder for each top-level directory; with any parent it is empty
C24_ListFoldersOfParent ==
    last.op = "listFolders"
        => /\ last.args.folder = NilPtr => OnePerTopDir(pre, last.folders)
           /\ last.args.folder # NilPtr => last.folders = <<>>

\* the folders of an existing folder were asked for, in a tree with a
\* directory inside that folder
C24_Witness ==
    /\ last.op = "listFolders"
    /\ last.args.folder # NilPtr
    /\ \E p \in TopDirs(pre) :
          /\ last.args.folder = Ptr(FolderAt(p).ID)
          /\ \E q \in DOMAIN pre : Len(q) = 2 /\ pre[q].kind = "dir" /\ q[1] = p[1]
    /\ last.folders = <<>>

(***************************************************************************)
(* C29.  Whenever a create or update call, run without concurrent calls,   *)
(* returns one of the validation errors AlreadyExists, FolderNotFound,     *)
(* ConflictInTargetFolder or NotFound, the set of snippet files with their *)
(* names, folders and contents is the same after the call as before it: an *)
(* update whose target folder_id matches no folder, or that fails in its   *)
(* create step, does not remove the original snippet.                      *)
(***************************************************************************)
\* the snippet files of a tree, each with its folder, name and content
SnippetFiles(tree) == {<<p, tree[p].content>> : p \in SnippetPaths(tree)}

ValidationErrors ==
    {errSnippetAlreadyExists, errFolderNotFound, errSnippetExistsInTargetFolder,
     errSnippetNotFound}

C29_ValidationErrorsKeepFiles ==
    last.op \in {"create", "update"} /\ last.err \in ValidationErrors
        => SnippetFiles(fs) = SnippetFiles(pre)

(***************************************************************************)
(* C25.  When no root path is configured, every repository operation       *)
(* (list, get, create, update, delete, listFolders, createFolder,          *)
(* deleteFolder) returns the dedicated not-configured error and performs   *)
(* no filesystem I/O: nothing is created, read or removed.                 *)
(***************************************************************************)
Operations ==
    {"list", "get", "create", "update", "delete", "listFolders", "createFolder",
     "deleteFolder"}

C25_NotConfigured ==
    cfg.SnippetsFolder = <<>> /\ last.op # "none"
        => /\ last.op \in Operations
           /\ last.err = errSnippetsFolderEnvNotSet
           /\ last.calls = <<>>
           /\ fs = pre
           /\ last.ret = NoSnippet /\ last.folder = NoFolder
           /\ last.list = <<>> /\ last.folders = <<>> /\ last.cursor = <<>>

\* without a configured root, the delete of a snippet whose file is there
\* was asked for, in a folder that is there
C25_Witness ==
    /\ cfg.SnippetsFolder = <<>>
    /\ last.op = "delete"
    /\ \E p \in SnippetPaths(pre) : Len(p) = 2 /\ SnippetAt(pre, p).ID = last.args.id
    /\ last.err = errSnippetsFolderEnvNotSet
    /\ fs = pre

(***************************************************************************)
(* C26.  The core never silently recovers from an I/O error: when reading  *)
(* a directory entry, a file's content or its metadata fails unexpectedly  *)
(* during a scan, the repository call that triggered the scan returns an   *)
(* I/O failure to its caller instead of a result computed as if the        *)
(* unreadable entry did not exist.                                         *)
(***************************************************************************)
TypedErrors ==
    ValidationErrors
    \cup {errFolderNameRequired, errFolderAlreadyExists, errLimitExceedsMax,
          errSnippetsFolderEnvNotSet}

\* the snippet files of the tree that os.ReadFile cannot read
Unreadable(tree) == {p \in SnippetPaths(tree) : ~Readable(tree[p])}

C26_ReadFailurePropagates ==
    last.op \in Operations /\ Unreadable(pre) # {}
        => last.err # "" /\ last.err \notin TypedErrors

(***************************************************************************)
(* C28: when two delete calls for the same id of an existing snippet run   *)
(* concurrently and both have resolved the entry in their scan before      *)
(* either removed the file, both return success, the one whose os.Remove   *)
(* found the file gone too, and the file is absent afterwards.  A delete   *)
(* holds a filePath only once its scan has resolved the entry, and a scan  *)
(* after the removal resolves nothing.                                     *)
(***************************************************************************)
Resolved(call) == call.filePath # RootAt

BothDeleteResolved(p, q) ==
    /\ calls[p].op = "delete" /\ calls[q].op = "delete"
    /\ calls[p].args.id = calls[q].args.id
    /\ Resolved(calls[p]) /\ Resolved(calls[q])

C28_ConcurrentDelete ==
    \A p \in Procs : \A q \in Procs \ {p} :
        BothDeleteResolved(p, q) =>
            /\ calls[p].pc = "return" => calls[p].err = ""
            /\ calls[p].pc = "return" /\ calls[q].pc = "return" =>
                    /\ calls[p].filePath = calls[q].filePath
                    /\ calls[p].filePath.path \notin DOMAIN fs

C28_Witness ==
    /\ BothDeleteResolved(1, 2)
    /\ calls[1].pc = "return" /\ calls[2].pc = "return"
    /\ calls[1].err = "" /\ calls[2].err = ""
    /\ calls[1].filePath.path \in DOMAIN pre
    /\ calls[1].filePath.path \notin DOMAIN fs

(***************************************************************************)
(* C27: there is an interleaving of two concurrent update calls after      *)
(* which the content of a snippet that was there before the calls, and     *)
(* that no call asked to delete or to overwrite, is in no file of the      *)
(* tree, although every os.WriteFile and os.Remove was one step.  The      *)
(* loss comes from the interleaving alone: updates that were served one    *)
(* after the other lose nothing.                                           *)
(***************************************************************************)
LostContents ==
    {lost \in {pre[path].content : path \in SnippetPaths(pre)} :
        \A path \in SnippetPaths(fs) : fs[path].content # lost}

UpdatesReturned ==
    /\ \E p \in Procs : calls[p].op = "update"
    /\ \A p \in Procs : calls[p].op \in {"none", "update"} /\ ~Serving(calls[p])

C27_UpdateRaceLosesData ==
    UpdatesReturned /\ LostContents # {} => \A p \in Procs : ~calls[p].alone

C27_Witness ==
    /\ \A p \in Procs : calls[p].op = "update" /\ calls[p].pc = "return"
    /\ calls[1].args.id # calls[2].args.id
    /\ LostContents # {}

(***************************************************************************)
(* C30: two create calls for the same (folder, name) run concurrently on   *)
(* a tree where that snippet is not.  As stated: one of them returns       *)
(* success and the other AlreadyExists, and the content on disk            *)
(* afterwards is that of the call that returned success.                   *)
(***************************************************************************)
CreatePath(call) == JoinRoot(<<sanitizeName(call.args.name) \o SqlSuffix>>).path

BothCreateReturned(p, q) ==
    /\ calls[p].op = "create" /\ calls[q].op = "create"
    /\ calls[p].args.name = calls[q].args.name
    /\ calls[p].pc = "return" /\ calls[q].pc = "return"
    /\ ~calls[p].alone /\ ~calls[q].alone
    /\ CreatePath(calls[p]) \notin DOMAIN pre

CreateOutcome ==
    \A p \in Procs : \A q \in Procs \ {p} :
        BothCreateReturned(p, q) =>
            /\ calls[p].err \in {"", errSnippetAlreadyExists}
            /\ CreatePath(calls[p]) \in DOMAIN fs
            /\ \E r \in {p, q} :
                /\ calls[r].err = ""
                /\ fs[CreatePath(calls[r])].content = calls[r].args.sql

CreateScan ==
    \A p \in Procs :
        calls[p].op = "create" /\ calls[p].pc = "saveSnippet" /\ calls'[p].pc # "saveSnippet" =>
            IF CreatePath(calls[p]) \in DOMAIN fs
            THEN calls'[p].pc = "return" /\ calls'[p].err = errSnippetAlreadyExists
            ELSE calls'[p].pc = "WriteFile"

=============================================================================
